---- MODULE Spec2Model ----
(***************************************************************************)
(* A model of pluggy's plugin registry (PluginManager), its hook callers   *)
(* (NormalHookCaller, HistoricHookCaller) and the call loop (_multicall).  *)
(*                                                                         *)
(* Every public operation of the manager or of a caller is one action.    *)
(* The call loop is a pure function of the two implementation lists, the  *)
(* kwargs and of what each implementation function does when it is run;   *)
(* it is modelled by the operator _multicall, which returns the trace of  *)
(* the call (the order in which functions were entered and resumed)       *)
(* together with the result or exception the host observes.               *)
(***************************************************************************)
EXTENDS Integers, Sequences, FiniteSets, TLC

VARIABLES
    name2plugin,    \* PluginManager._name2plugin, an insertion-ordered dict
    hook,           \* PluginManager.hook (HookRelay.__dict__): name -> caller
    universe,       \* what the host draws its inputs from: plugins, names,
                    \* namespaces, kwargs, and what the functions do
    last,           \* what the last operation did and returned
    inner_hookexec, \* PluginManager._inner_hookexec: the monitors whose
                    \* traced_hookexec are nested around _multicall, from
                    \* the innermost to the outermost; <<>> is _multicall
    undos,          \* the undo functions the host holds: for each monitor
                    \* the oldcall its undo function restores
    indent,         \* PluginManager.trace.root.indent
    plugin_distinfo,\* PluginManager._plugin_distinfo: the list of the pairs
                    \* (plugin, distribution) of the loaded entry points
    subset          \* the caller the host got from subset_hook_caller and
                    \* holds: the hook, _remove_plugins, and _orig

vars == <<name2plugin, hook, universe, last, inner_hookexec, undos, indent,
          plugin_distinfo, subset>>

----------------------------------------------------------------------------
(* Bounds *)

\* at most this many plugins are registered at the same time
MaxPlugins == 3
\* at most this many calls are memorized by a historic caller
MaxHistory == 2
\* at most this many implementations are held by one caller
MaxImpls == 3
\* the indent of the tracer that a hook call may leave
MaxIndent == 2
\* the longest list of loaded entry points
MaxDistinfo == 3

----------------------------------------------------------------------------
(* Values and exceptions *)

\* Python values that flow through a hook call: None, an object, a list.
None == [t |-> "none", v |-> 0, items |-> <<>>]
Obj(n) == [t |-> "obj", v |-> n, items |-> <<>>]
List(s) == [t |-> "list", v |-> 0, items |-> s]

\* Exceptions: the type, the function that raised it (0: the library),
\* the argument named by a HookCallError, and the message.
NoExc == [type |-> "none", by |-> 0, arg |-> "", msg |-> ""]
Exc(type, by, msg) == [type |-> type, by |-> by, arg |-> "", msg |-> msg]

\* HookCallError(f"hook call must provide argument {argname!r}")
HookCallError(argname) ==
    [type |-> "HookCallError", by |-> 0, arg |-> argname, msg |-> "must provide"]

\* what a generator answers when it is started or resumed
GenReturn(val) == [how |-> "return", val |-> val, exc |-> NoExc]
GenRaise(exc) == [how |-> "raise", val |-> None, exc |-> exc]
GenYield == [how |-> "yield", val |-> None, exc |-> NoExc]

----------------------------------------------------------------------------
(* Plugins and their hook implementations *)

\* kwargs of a call: argument name -> value, 0 when the argument is absent
NoKwargs == [a |-> 0, b |-> 0]

\* HookimplConfiguration plus the function: one decorated attribute of a plugin.
\* kind: "normal", "wrapper" (new-style) or "hookwrapper" (old-style)
Attr(id, hookname, kind, tryfirst, trylast, optionalhook, argnames, isgen) ==
    [function |-> id, hook |-> hookname, kind |-> kind, tryfirst |-> tryfirst,
     trylast |-> trylast, optionalhook |-> optionalhook, argnames |-> argnames,
     isgen |-> isgen]

\* HookImpl / WrapperImpl: the attribute bound to its plugin
HookImpl(plugin, attr) ==
    [plugin |-> plugin, function |-> attr.function, kind |-> attr.kind,
     tryfirst |-> attr.tryfirst, trylast |-> attr.trylast,
     optionalhook |-> attr.optionalhook, argnames |-> attr.argnames,
     isgen |-> attr.isgen]

IsWrapper(hookimpl) == hookimpl.kind \in {"wrapper", "hookwrapper"}

\* The plugin objects of the model; dir(plugin) lists attributes by name.
\* 1..6 implement hook "h" in every priority class and wrapper style,
\* 7..9 implement the historic hook "hist", 10..12 exercise validation,
\* 13 and 14 implement "h" twice, 15 is marked tryfirst and trylast at once,
\* 16..21 are the implementations A, B(trylast), C, D(trylast), E(tryfirst)
\* and F of "h".
PluginAttrs(p) ==
    CASE p = 1 -> <<Attr(11, "h", "normal", TRUE, FALSE, FALSE, <<"a">>, FALSE)>>
      [] p = 2 -> <<Attr(21, "h", "normal", FALSE, FALSE, FALSE, <<>>, FALSE)>>
      [] p = 3 -> <<Attr(31, "h", "normal", FALSE, TRUE, FALSE, <<"a", "b">>, FALSE)>>
      [] p = 4 -> <<Attr(41, "h", "wrapper", TRUE, FALSE, FALSE, <<>>, TRUE)>>
      [] p = 5 -> <<Attr(51, "h", "hookwrapper", FALSE, FALSE, FALSE, <<"b">>, TRUE)>>
      [] p = 6 -> <<Attr(61, "h", "wrapper", FALSE, TRUE, FALSE, <<>>, TRUE)>>
      [] p = 7 -> <<Attr(71, "hist", "normal", FALSE, FALSE, FALSE, <<"a">>, FALSE)>>
      [] p = 8 -> <<Attr(81, "hist", "normal", TRUE, FALSE, FALSE, <<>>, FALSE)>>
      [] p = 9 -> <<Attr(91, "hist", "normal", FALSE, FALSE, FALSE, <<"a">>, FALSE),
                    Attr(92, "hist", "normal", FALSE, TRUE, FALSE, <<>>, FALSE)>>
      [] p = 10 -> <<Attr(101, "g", "normal", FALSE, FALSE, FALSE, <<"a">>, FALSE),
                     Attr(102, "h", "normal", FALSE, FALSE, FALSE, <<"c">>, FALSE)>>
      [] p = 11 -> <<Attr(111, "g", "normal", FALSE, FALSE, TRUE, <<>>, FALSE),
                     Attr(112, "hist", "wrapper", FALSE, FALSE, FALSE, <<>>, TRUE)>>
      [] p = 12 -> <<Attr(121, "h", "wrapper", FALSE, FALSE, FALSE, <<"a">>, FALSE)>>
      [] p = 13 -> <<Attr(131, "h", "normal", FALSE, FALSE, FALSE, <<"a">>, FALSE),
                     Attr(132, "h", "wrapper", FALSE, FALSE, FALSE, <<>>, TRUE)>>
      [] p = 14 -> <<Attr(141, "h", "normal", TRUE, FALSE, FALSE, <<>>, FALSE),
                     Attr(142, "h", "normal", FALSE, TRUE, FALSE, <<"a">>, FALSE)>>
      [] p = 15 -> <<Attr(151, "h", "normal", TRUE, TRUE, FALSE, <<>>, FALSE)>>
      [] p = 16 -> <<Attr(161, "h", "normal", FALSE, FALSE, FALSE, <<>>, FALSE)>>
      [] p = 17 -> <<Attr(171, "h", "normal", FALSE, TRUE, FALSE, <<>>, FALSE)>>
      [] p = 18 -> <<Attr(181, "h", "normal", FALSE, FALSE, FALSE, <<>>, FALSE)>>
      [] p = 19 -> <<Attr(191, "h", "normal", FALSE, TRUE, FALSE, <<>>, FALSE)>>
      [] p = 20 -> <<Attr(201, "h", "normal", TRUE, FALSE, FALSE, <<>>, FALSE)>>
      [] p = 21 -> <<Attr(211, "h", "normal", FALSE, FALSE, FALSE, <<>>, FALSE)>>
      [] OTHER -> <<>>

\* The name of the attribute that holds the function. An implementation is
\* added to the hook "specname or name": the functions marked with a specname
\* are attributes of another name than their hook, the others are attributes
\* of the name of their hook.
AttrName(attr) ==
    CASE attr.function = 92 -> "hist_last"
      [] attr.function = 132 -> "h_wrap"
      [] attr.function = 141 -> "h_first"
      [] attr.function = 142 -> "h_last"
      [] OTHER -> attr.hook

\* hasattr(plugin, name)
hasattr(plugin, name) ==
    \E k \in 1..Len(PluginAttrs(plugin)) : AttrName(PluginAttrs(plugin)[k]) = name

\* get_canonical_name: plugin.__name__, else str(id(plugin))
get_canonical_name(p) ==
    CASE p = 1 -> "p1" [] p = 2 -> "p2" [] p = 3 -> "p3" [] p = 4 -> "p4"
      [] p = 5 -> "p5" [] p = 6 -> "p6" [] p = 7 -> "p7" [] p = 8 -> "p8"
      [] p = 9 -> "p9" [] p = 10 -> "p10" [] p = 11 -> "p11" [] p = 12 -> "p12"
      [] p = 13 -> "p13" [] p = 14 -> "p14" [] p = 15 -> "p15" [] p = 16 -> "p16"
      [] p = 17 -> "p17" [] p = 18 -> "p18" [] p = 19 -> "p19" [] p = 20 -> "p20"
      [] p = 21 -> "p21"
      [] OTHER -> "p0"

----------------------------------------------------------------------------
(* Sequence helpers *)

InsertAt(s, i, e) == SubSeq(s, 1, i - 1) \o <<e>> \o SubSeq(s, i, Len(s))
RemoveAt(s, i) == SubSeq(s, 1, i - 1) \o SubSeq(s, i + 1, Len(s))
Range(s) == {s[i] : i \in 1..Len(s)}

----------------------------------------------------------------------------
(* _insert_hookimpl_into_list *)

\* 0-based index of the last method that is not tryfirst, scanning from i
RECURSIVE LastNonTryfirst(_, _)
LastNonTryfirst(target_list, i) ==
    IF i >= 0 /\ target_list[i + 1].tryfirst
    THEN LastNonTryfirst(target_list, i - 1)
    ELSE i

\* variant: a trylast implementation goes behind the trylast implementations
\* of the list
_insert_hookimpl_into_listInOrder(hookimpl, target_list) ==
    IF hookimpl.trylast
    THEN InsertAt(target_list,
                  Len(SelectSeq(target_list, LAMBDA e : e.trylast)) + 1, hookimpl)
    ELSE IF hookimpl.tryfirst THEN Append(target_list, hookimpl)
    ELSE LET i == LastNonTryfirst(target_list, Len(target_list) - 1)
         IN  InsertAt(target_list, i + 2, hookimpl)
\* _insert_hookimpl_into_list
_insert_hookimpl_into_list(hookimpl, target_list) ==
    IF hookimpl.trylast THEN <<hookimpl>> \o target_list
    ELSE IF hookimpl.tryfirst THEN Append(target_list, hookimpl)
    ELSE LET i == LastNonTryfirst(target_list, Len(target_list) - 1)
         IN  InsertAt(target_list, i + 2, hookimpl)

----------------------------------------------------------------------------
(* What the plugin functions do when they are run (inputs of a call) *)

\* a normal implementation returns None, returns an object, raises an
\* exception of its own, or raises StopIteration
NormalBeh == {"none", "value", "raise", "stopiter"}

\* a wrapper function returns without yielding, raises before its yield, or
\* yields and then, when resumed: lets the outcome through ("pass"), returns
\* (new-style) or forces (old-style) a result of its own ("ret"), raises
\* ("raise"), or yields again; "yield2close" also raises when it is closed
WrapBeh == {"noyield", "setupraise", "pass", "ret", "raise", "yield2", "yield2close"}

\* the object a normal implementation returns, the one a wrapper substitutes
RetOf(hookimpl) == Obj(hookimpl.function)
WrapRetOf(hookimpl) == Obj(1000 + hookimpl.function)
UserError(hookimpl) == Exc("UserError", hookimpl.function, "")
StopIterationOf(hookimpl) == Exc("StopIteration", hookimpl.function, "")
\* raise RuntimeError("this is personal") in a normal implementation
RuntimeErrorOf(hookimpl) == Exc("RuntimeError", hookimpl.function, "this is personal")
CloseError(hookimpl) == Exc("UserError", hookimpl.function, "close")

----------------------------------------------------------------------------
(* _callers.py *)

Provided(caller_kwargs, argname) ==
    argname \in DOMAIN caller_kwargs /\ caller_kwargs[argname] # 0

\* the first argname of the implementation that the call does not provide
RECURSIVE FirstMissing(_, _, _)
FirstMissing(argnames, caller_kwargs, k) ==
    IF k > Len(argnames) THEN ""
    ELSE IF ~Provided(caller_kwargs, argnames[k]) THEN argnames[k]
    ELSE FirstMissing(argnames, caller_kwargs, k + 1)

\* args = [caller_kwargs[argname] for argname in hook_impl.argnames]
CallArgs(argnames, caller_kwargs) ==
    [k \in 1..Len(argnames) |-> caller_kwargs[argnames[k]]]

\* one entry of the trace of a call
Ev(ev, i, hookimpl, beh, args, inres, inexc, outres, outexc) ==
    [ev |-> ev, i |-> i, function |-> hookimpl.function, beh |-> beh,
     args |-> args, inres |-> inres, inexc |-> inexc,
     outres |-> outres, outexc |-> outexc]

\* _raise_wrapfail
WrapFail(hookimpl, msg) == Exc("RuntimeError", hookimpl.function, msg)

\* Python turns a StopIteration that leaves a generator into a RuntimeError
\* whose __cause__ is that StopIteration (PEP 479)
LeaveGenerator(exc) ==
    IF exc.type = "StopIteration"
    THEN [type |-> "RuntimeError", by |-> exc.by, arg |-> "",
          msg |-> "generator raised StopIteration"]
    ELSE exc

\* re.__cause__ is exception
CauseIs(re, exception) ==
    re.msg = "generator raised StopIteration" /\ re.by = exception.by

\* _Result.get_result as the last statement of a generator
GetResult(result, excinfo) ==
    IF excinfo = NoExc THEN GenReturn(result) ELSE GenRaise(LeaveGenerator(excinfo))

\* a new-style wrapper generator started with next()
StartNewStyle(hookimpl, beh) ==
    CASE beh = "noyield" -> GenReturn(None)
      [] beh = "setupraise" -> GenRaise(LeaveGenerator(UserError(hookimpl)))
      [] OTHER -> GenYield

\* a new-style wrapper generator resumed with send(result) or throw(exception)
ResumeNewStyle(hookimpl, beh, result, exception) ==
    CASE beh = "pass" ->
            IF exception = NoExc THEN GenReturn(result)
            ELSE GenRaise(LeaveGenerator(exception))
      [] beh = "ret" -> GenReturn(WrapRetOf(hookimpl))
      [] beh = "raise" -> GenRaise(UserError(hookimpl))
      [] OTHER -> GenYield

\* run_old_style_hookwrapper, up to its yield
StartOldStyle(hookimpl, beh) ==
    CASE beh = "noyield" -> GenRaise(WrapFail(hookimpl, "did not yield"))
      [] beh = "setupraise" -> GenRaise(LeaveGenerator(UserError(hookimpl)))
      [] OTHER -> GenYield

\* variant: force_result sets the result and keeps the exception
ResumeOldStyleKeepingExc(hookimpl, beh, result, exception) ==
    CASE beh = "pass" -> GetResult(result, exception)
      [] beh = "ret" -> GetResult(WrapRetOf(hookimpl), exception)
      [] beh = "raise" -> GenRaise(UserError(hookimpl))
      [] beh = "yield2" -> GenRaise(WrapFail(hookimpl, "has second yield"))
      [] OTHER -> GenRaise(CloseError(hookimpl))
\* run_old_style_hookwrapper, from its yield on: the outcome is wrapped in a
\* Result, sent to the hookwrapper, and unwrapped with get_result
ResumeOldStyle(hookimpl, beh, result, exception) ==
    CASE beh = "pass" -> GetResult(result, exception)
      [] beh = "ret" -> GetResult(WrapRetOf(hookimpl), NoExc)
      [] beh = "raise" -> GenRaise(UserError(hookimpl))
      [] beh = "yield2" -> GenRaise(WrapFail(hookimpl, "has second yield"))
      [] OTHER -> GenRaise(CloseError(hookimpl))

\* function(*args) followed by next(): a function that is not a generator
\* function runs to its end and next() of what it returned raises TypeError
StartWrapper(hookimpl, beh) ==
    IF ~hookimpl.isgen
    THEN GenRaise(IF beh = "setupraise" THEN UserError(hookimpl)
                  ELSE Exc("TypeError", hookimpl.function, "not an iterator"))
    ELSE IF hookimpl.kind = "hookwrapper" THEN StartOldStyle(hookimpl, beh)
    ELSE LET g == StartNewStyle(hookimpl, beh)
         IN  IF g.how = "return"
             THEN GenRaise(WrapFail(hookimpl, "did not yield"))
             ELSE g

ResumeWrapper(hookimpl, beh, result, exception) ==
    IF hookimpl.kind = "hookwrapper"
    THEN ResumeOldStyle(hookimpl, beh, result, exception)
    ELSE ResumeNewStyle(hookimpl, beh, result, exception)

\* the positions of a list in the order in which reversed(list) visits them
reversed(n) == [k \in 1..n |-> n + 1 - k]

\* reversed(wrapper_impls), the iteration of phase 1
WrapperOrder(wrapper_impls) == reversed(Len(wrapper_impls))

\* variant: the normal implementations are visited in list order
NormalOrderForward(normal_impls) == [k \in 1..Len(normal_impls) |-> k]
\* reversed(normal_impls), the iteration of phase 2
NormalOrder(normal_impls) == reversed(Len(normal_impls))

\* variant: the teardowns are visited in the order of the setups
TeardownOrderForward(teardowns) == teardowns
\* reversed(teardowns), the iteration of the teardown loop
TeardownOrder(teardowns) == [k \in 1..Len(teardowns) |-> teardowns[reversed(Len(teardowns))[k]]]

\* the local variables of _multicall, and the trace of the call; halt is set
\* when the loop over the normal implementations breaks, wrapfail when
\* _raise_wrapfail leaves the teardown loop
State0 ==
    [teardowns |-> <<>>, results |-> <<>>, exception |-> NoExc, result |-> None,
     log |-> <<>>, halt |-> FALSE, wrapfail |-> FALSE]

\* the wrapper at position i is started and answers g
SetupWrapper(hook_impl, i, beh, args, g, st) ==
    IF g.how = "yield"
    THEN [st EXCEPT !.teardowns = Append(@, i),
                    !.log = Append(@, Ev("setup", i, hook_impl, beh, args,
                                         None, NoExc, None, NoExc))]
    ELSE [st EXCEPT !.exception = g.exc,
                    !.log = Append(@, Ev("setup", i, hook_impl, beh, args,
                                         None, NoExc, None, g.exc))]

\* one iteration of phase 1: the arguments are extracted (missing is the
\* first argument the call does not provide) and the wrapper is started
SetupAt(hook_impl, i, beh, caller_kwargs, missing, st) ==
    IF missing # ""
    THEN [st EXCEPT !.exception = HookCallError(missing)]
    ELSE SetupWrapper(hook_impl, i, beh, CallArgs(hook_impl.argnames, caller_kwargs),
                      StartWrapper(hook_impl, beh), st)

\* Phase 1: wrapper setup, for hook_impl in reversed(wrapper_impls); k is the
\* position in that iteration, which an exception ends
RECURSIVE SetupWrappers(_, _, _, _, _)
SetupWrappers(wrapper_impls, caller_kwargs, wb, k, st) ==
    IF k > Len(wrapper_impls) \/ st.exception # NoExc THEN st
    ELSE SetupWrappers(wrapper_impls, caller_kwargs, wb, k + 1,
            SetupAt(wrapper_impls[WrapperOrder(wrapper_impls)[k]],
                    WrapperOrder(wrapper_impls)[k],
                    wb[WrapperOrder(wrapper_impls)[k]],
                    caller_kwargs,
                    FirstMissing(wrapper_impls[WrapperOrder(wrapper_impls)[k]].argnames,
                                 caller_kwargs, 1),
                    st))

\* variant: the result is put in front of the list
CollectInFront(results, res) == <<res.v>> \o results
\* results.append(res)
Collect(results, res) == Append(results, res.v)

\* variant: the loop never breaks
HaltNever(firstresult, res) == FALSE
\* "if firstresult: break" after a result that is not None
Halt(firstresult, res) == firstresult /\ res # None

\* res = hook_impl.function(*args) and what follows it: the function raises
\* exc or returns res
CallImpl(hook_impl, i, beh, args, firstresult, exc, res, st) ==
    IF exc # NoExc
    THEN [st EXCEPT !.exception = exc,
                    !.log = Append(@, Ev("call", i, hook_impl, beh, args,
                                         None, NoExc, None, exc))]
    ELSE IF res # None
    THEN [st EXCEPT !.results = Collect(@, res),
                    !.halt = Halt(firstresult, res),
                    !.log = Append(@, Ev("call", i, hook_impl, beh, args,
                                         None, NoExc, res, NoExc))]
    ELSE [st EXCEPT !.log = Append(@, Ev("call", i, hook_impl, beh, args,
                                         None, NoExc, None, NoExc))]

\* variant: an implementation whose arguments are not all provided is skipped
CallAtSkipping(hook_impl, i, beh, caller_kwargs, firstresult, missing, st) ==
    IF missing # ""
    THEN st
    ELSE CallImpl(hook_impl, i, beh, CallArgs(hook_impl.argnames, caller_kwargs),
                  firstresult,
                  CASE beh = "raise" -> UserError(hook_impl)
                    [] beh = "stopiter" -> StopIterationOf(hook_impl)
                    [] beh = "runtimeerror" -> RuntimeErrorOf(hook_impl)
                    [] OTHER -> NoExc,
                  IF beh = "value" THEN RetOf(hook_impl) ELSE None,
                  st)
\* one iteration of phase 2
CallAt(hook_impl, i, beh, caller_kwargs, firstresult, missing, st) ==
    IF missing # ""
    THEN [st EXCEPT !.exception = HookCallError(missing)]
    ELSE CallImpl(hook_impl, i, beh, CallArgs(hook_impl.argnames, caller_kwargs),
                  firstresult,
                  CASE beh = "raise" -> UserError(hook_impl)
                    [] beh = "stopiter" -> StopIterationOf(hook_impl)
                    [] beh = "runtimeerror" -> RuntimeErrorOf(hook_impl)
                    [] OTHER -> NoExc,
                  IF beh = "value" THEN RetOf(hook_impl) ELSE None,
                  st)

\* Phase 2: for hook_impl in reversed(normal_impls); k is the position in
\* that iteration, which an exception or the break ends
RECURSIVE RunNormalImpls(_, _, _, _, _, _)
RunNormalImpls(normal_impls, caller_kwargs, firstresult, nb, k, st) ==
    IF k > Len(normal_impls) \/ st.exception # NoExc \/ st.halt THEN st
    ELSE RunNormalImpls(normal_impls, caller_kwargs, firstresult, nb, k + 1,
            CallAt(normal_impls[NormalOrder(normal_impls)[k]],
                   NormalOrder(normal_impls)[k],
                   nb[NormalOrder(normal_impls)[k]],
                   caller_kwargs, firstresult,
                   FirstMissing(normal_impls[NormalOrder(normal_impls)[k]].argnames,
                                caller_kwargs, 1),
                   st))

\* the start of the finally clause: "except BaseException as exc" has caught
\* the exception of phases 1 and 2, and the result of the call is computed
Finally(firstresult, st) ==
    [st EXCEPT
        !.result = IF firstresult
                   THEN (IF st.results # <<>> THEN Obj(st.results[1]) ELSE None)
                   ELSE List(st.results),
        !.log = IF st.exception = NoExc THEN @
                ELSE Append(@, Ev("except", 0, [function |-> 0], "", <<>>,
                                  None, NoExc, None, st.exception))]

\* variant: a generator that yields again is closed and the call goes on
ResumedClosingQuietly(hook_impl, i, beh, g, st) ==
    LET result == IF g.how = "return" THEN g.val ELSE st.result
        exception == CASE g.how = "return" -> NoExc
                       [] g.how = "raise" -> g.exc
                       [] OTHER -> st.exception
    IN  [st EXCEPT !.result = result, !.exception = exception,
                   !.log = Append(@, Ev("teardown", i, hook_impl, beh, <<>>,
                                        st.result, st.exception, result, exception))]
\* the body of the teardown loop after the generator, resumed with
\* send(result) or throw(exception), has answered g
Resumed(hook_impl, i, beh, g, st) ==
    LET swallowed == /\ g.how = "raise"
                     /\ st.exception # NoExc
                     /\ g.exc.type = "RuntimeError"
                     /\ st.exception.type = "StopIteration"
                     /\ CauseIs(g.exc, st.exception)
        closefails == g.how = "yield" /\ beh = "yield2close"
        result == IF g.how = "return" THEN g.val ELSE st.result
        exception == CASE g.how = "return" -> NoExc
                       [] swallowed -> st.exception
                       [] g.how = "raise" -> g.exc
                       [] closefails -> CloseError(hook_impl)
                       [] OTHER -> WrapFail(hook_impl, "has second yield")
    IN  [st EXCEPT !.result = result, !.exception = exception,
                   !.log = Append(@, Ev("teardown", i, hook_impl, beh, <<>>,
                                        st.result, st.exception, result, exception)),
                   !.wrapfail = (g.how = "yield" /\ ~closefails)]

\* one iteration of "for teardown in reversed(teardowns)"
RunTeardown(wrapper_impls, wb, i, st) ==
    Resumed(wrapper_impls[i], i, wb[i],
            ResumeWrapper(wrapper_impls[i], wb[i], st.result, st.exception), st)

\* the loop over reversed(teardowns); _raise_wrapfail after the try statement
\* leaves the loop
RECURSIVE RunTeardowns(_, _, _, _)
RunTeardowns(wrapper_impls, wb, k, st) ==
    IF k > Len(st.teardowns) \/ st.wrapfail THEN st
    ELSE RunTeardowns(wrapper_impls, wb, k + 1,
                      RunTeardown(wrapper_impls, wb, TeardownOrder(st.teardowns)[k], st))

\* "raise exception" or "return result"
Leave(st) ==
    [log |-> st.log,
     result |-> IF st.exception # NoExc THEN None ELSE st.result,
     exception |-> st.exception]

_multicall(normal_impls, wrapper_impls, caller_kwargs, firstresult, nb, wb) ==
    Leave(RunTeardowns(wrapper_impls, wb, 1,
            Finally(firstresult,
                RunNormalImpls(normal_impls, caller_kwargs, firstresult, nb, 1,
                    SetupWrappers(wrapper_impls, caller_kwargs, wb, 1, State0)))))

----------------------------------------------------------------------------
(* The manager state as a value: the dict _name2plugin and the relay *)

HookNames == {"g", "h", "hist"}

\* HookSpec: argnames and HookspecConfiguration
NoSpec == [set |-> FALSE, firstresult |-> FALSE, historic |-> FALSE, argnames |-> <<>>]
HookSpec(firstresult, historic, argnames) ==
    [set |-> TRUE, firstresult |-> firstresult, historic |-> historic,
     argnames |-> argnames]

\* a caller held by the relay: cls is "NormalHookCaller" or
\* "HistoricHookCaller" ("" when the relay has no such attribute); a historic
\* caller keeps its _hookimpls in normal
NoCaller == [cls |-> "", spec |-> NoSpec, normal |-> <<>>, wrappers |-> <<>>,
             history |-> <<>>]
NormalHookCaller(spec) == [NoCaller EXCEPT !.cls = "NormalHookCaller", !.spec = spec]
HistoricHookCaller(spec) == [NoCaller EXCEPT !.cls = "HistoricHookCaller", !.spec = spec]

has_spec(hc) == hc.spec.set
is_historic(hc) == hc.cls = "HistoricHookCaller"
get_hookimpls(hc) == hc.normal \o hc.wrappers

\* dict operations on a sequence of [name, plugin] items; plugin 0 is None
DictHas(d, k) == \E i \in 1..Len(d) : d[i].name = k
DictGet(d, k) == IF DictHas(d, k)
                 THEN d[CHOOSE i \in 1..Len(d) : d[i].name = k].plugin
                 ELSE 0
DictSet(d, k, v) ==
    IF DictHas(d, k)
    THEN [i \in 1..Len(d) |-> IF d[i].name = k THEN [name |-> k, plugin |-> v] ELSE d[i]]
    ELSE Append(d, [name |-> k, plugin |-> v])
DictDel(d, k) == SelectSeq(d, LAMBDA it : it.name # k)
DictValues(d) == {d[i].plugin : i \in 1..Len(d)}

get_plugin(m, name) == DictGet(m.name2plugin, name)
has_plugin(m, name) == get_plugin(m, name) # 0
get_plugins(m) == DictValues(m.name2plugin) \ {0}
is_blocked(m, name) == DictHas(m.name2plugin, name) /\ DictGet(m.name2plugin, name) = 0

\* get_name: the first name, in dict order, whose value is the plugin
get_name(m, plugin) ==
    LET d == m.name2plugin
        hits == {i \in 1..Len(d) : d[i].plugin = plugin}
    IN  IF hits = {} THEN ""
        ELSE d[CHOOSE i \in hits : \A j \in hits : i <= j].name

\* the outcome of a manager operation: the new state, what it returned
\* (a name, a plugin, a value), the exception it raised and its trace; given
\* is the list the operation was handed (remove_plugins, methods)
Outcome(m, retname, retplugin, exc, log) ==
    [m |-> m, retname |-> retname, retplugin |-> retplugin, ret |-> None,
     exc |-> exc, log |-> log, given |-> <<>>]

PluginValidationError(plugin, msg) == Exc("PluginValidationError", plugin, msg)

\* _verify_hook: the exception it raises, NoExc if none
_verify_hook(hc, hookimpl) ==
    IF is_historic(hc) /\ IsWrapper(hookimpl)
    THEN PluginValidationError(hookimpl.plugin, "historic incompatible with wrapper")
    ELSE IF Range(hookimpl.argnames) \ Range(hc.spec.argnames) # {}
    THEN PluginValidationError(hookimpl.plugin, "argument not in hookspec")
    ELSE IF IsWrapper(hookimpl) /\ ~hookimpl.isgen
    THEN PluginValidationError(hookimpl.plugin, "not a generator function")
    ELSE NoExc

\* NormalHookCaller._add_hookimpl
NormalAddHookimpl(hc, hookimpl) ==
    IF IsWrapper(hookimpl)
    THEN [hc EXCEPT !.wrappers = _insert_hookimpl_into_list(hookimpl, @)]
    ELSE [hc EXCEPT !.normal = _insert_hookimpl_into_list(hookimpl, @)]

\* variant: the replay makes no callback
ReplayedWithoutCallback(history, method, k, r, acc) ==
    [log |-> acc.log \o [j \in 1..Len(r.log) |-> [r.log[j] EXCEPT !.i = k]],
     exc |-> r.exception]
\* one iteration of _maybe_apply_history: the k-th recorded call was replayed
\* on the method and _multicall answered r
Replayed(history, method, k, r, acc) ==
    [log |-> acc.log
             \o [j \in 1..Len(r.log) |-> [r.log[j] EXCEPT !.i = k]]
             \o (IF r.exception = NoExc /\ r.result.items # <<>> /\ history[k].callback
                 THEN <<Ev("callback", k, method, "", <<>>,
                           Obj(r.result.items[1]), NoExc, None, NoExc)>>
                 ELSE <<>>),
     exc |-> r.exception]

\* HistoricHookCaller._maybe_apply_history: the recorded calls are replayed
\* on the method alone until one of them raises; rb[k] is what the method
\* does when the k-th recorded call is replayed
RECURSIVE _maybe_apply_history(_, _, _, _, _)
_maybe_apply_history(history, method, rb, k, acc) ==
    IF k > Len(history) \/ acc.exc # NoExc THEN acc
    ELSE _maybe_apply_history(history, method, rb, k + 1,
            Replayed(history, method, k,
                     _multicall(<<method>>, <<>>, history[k].kwargs, FALSE,
                                <<rb[k]>>, <<>>),
                     acc))

\* variant: the implementation is inserted and the history is not replayed
HistoricAddHookimplNoReplay(hc, hookimpl, rb, log) ==
    [hc |-> [hc EXCEPT !.normal = _insert_hookimpl_into_list(hookimpl, @)],
     rp |-> [log |-> log, exc |-> NoExc]]
\* HistoricHookCaller._add_hookimpl: insert, then replay the history
HistoricAddHookimpl(hc, hookimpl, rb, log) ==
    [hc |-> [hc EXCEPT !.normal = _insert_hookimpl_into_list(hookimpl, @)],
     rp |-> _maybe_apply_history(hc.history, hookimpl, rb, 1,
                                 [log |-> log, exc |-> NoExc])]

\* register after hook._add_hookimpl(hookimpl) on a historic caller
HistoricAdded(acc, hook_name, added) ==
    [acc EXCEPT !.m.hook[hook_name] = added.hc,
                !.log = added.rp.log,
                !.exc = added.rp.exc]

\* one iteration of the loop "for name in dir(plugin)" of register, for a
\* marked attribute; acc holds the manager, the trace and the exception raised
RegisterAttr(plugin, attr, rb, acc) ==
    LET hookimpl == HookImpl(plugin, attr)
        found == acc.m.hook[attr.hook]
        hc == IF found.cls = "" THEN NormalHookCaller(NoSpec) ELSE found
        verr == IF found.cls # "" /\ has_spec(found)
                THEN _verify_hook(found, hookimpl) ELSE NoExc
    IN  IF verr # NoExc
        THEN [acc EXCEPT !.m.hook[attr.hook] = hc, !.exc = verr]
        ELSE IF is_historic(hc)
        THEN IF IsWrapper(hookimpl)
             THEN [acc EXCEPT !.m.hook[attr.hook] = hc,
                              !.exc = PluginValidationError(plugin,
                                        "Historic hooks do not support wrappers")]
             ELSE HistoricAdded(acc, attr.hook,
                                HistoricAddHookimpl(hc, hookimpl, rb, acc.log))
        ELSE [acc EXCEPT !.m.hook[attr.hook] = NormalAddHookimpl(hc, hookimpl)]

\* the loop "for name in dir(plugin)" of register, from the k-th attribute
RECURSIVE RegisterAttrs(_, _, _, _)
RegisterAttrs(plugin, rb, k, acc) ==
    IF k > Len(PluginAttrs(plugin)) \/ acc.exc # NoExc THEN acc
    ELSE RegisterAttrs(plugin, rb, k + 1,
                       RegisterAttr(plugin, PluginAttrs(plugin)[k], rb, acc))

\* "return plugin_name", or the exception that left the loop
Registered(plugin_name, acc) ==
    Outcome(acc.m, IF acc.exc = NoExc THEN plugin_name ELSE "", 0, acc.exc, acc.log)

\* What register does after the name checks: the plugin is entered in
\* _name2plugin, then its implementations are added one by one
RegisterBody(m, plugin, plugin_name, rb) ==
    Registered(plugin_name,
        RegisterAttrs(plugin, rb, 1,
            [m |-> [m EXCEPT !.name2plugin = DictSet(@, plugin_name, plugin)],
             exc |-> NoExc, log |-> <<>>]))

\* variant: a plugin that is already registered is accepted under a new name
registerUnderAnyName(m, plugin, name, rb) ==
    LET plugin_name == IF name # "" THEN name ELSE get_canonical_name(plugin)
    IN  IF DictHas(m.name2plugin, plugin_name)
        THEN IF DictGet(m.name2plugin, plugin_name) = 0
             THEN Outcome(m, "", 0, NoExc, <<>>)
             ELSE Outcome(m, "", 0, Exc("ValueError", 0, "Plugin name already registered"), <<>>)
        ELSE RegisterBody(m, plugin, plugin_name, rb)
\* PluginManager.register(plugin, name); name "" stands for None
register(m, plugin, name, rb) ==
    LET plugin_name == IF name # "" THEN name ELSE get_canonical_name(plugin)
    IN  IF DictHas(m.name2plugin, plugin_name)
        THEN IF DictGet(m.name2plugin, plugin_name) = 0
             THEN Outcome(m, "", 0, NoExc, <<>>)
             ELSE Outcome(m, "", 0, Exc("ValueError", 0, "Plugin name already registered"), <<>>)
        ELSE IF plugin \in DictValues(m.name2plugin)
        THEN Outcome(m, "", 0,
                Exc("ValueError", 0, "Plugin already registered under a different name"), <<>>)
        ELSE RegisterBody(m, plugin, plugin_name, rb)

\* _remove_plugin: the first implementation of the plugin is deleted, from
\* the normal list if there is one, else from the wrappers
FirstOf(impls, plugin) ==
    IF \E i \in 1..Len(impls) : impls[i].plugin = plugin
    THEN CHOOSE i \in 1..Len(impls) :
            /\ impls[i].plugin = plugin
            /\ \A j \in 1..(i - 1) : impls[j].plugin # plugin
    ELSE 0

_remove_plugin(hc, plugin) ==
    IF FirstOf(hc.normal, plugin) # 0
    THEN [hc EXCEPT !.normal = RemoveAt(@, FirstOf(hc.normal, plugin))]
    ELSE IF FirstOf(hc.wrappers, plugin) # 0
    THEN [hc EXCEPT !.wrappers = RemoveAt(@, FirstOf(hc.wrappers, plugin))]
    ELSE hc

\* variant: a caller is cleared of one implementation of the plugin only
RemoveOnce(hc, plugin, n) ==
    IF n = 0 THEN hc ELSE _remove_plugin(hc, plugin)
RECURSIVE RemoveTimes(_, _, _)
RemoveTimes(hc, plugin, n) ==
    IF n = 0 THEN hc ELSE RemoveTimes(_remove_plugin(hc, plugin), plugin, n - 1)

\* get_hookcallers lists a caller once per implementation of the plugin it
\* holds; unregister calls _remove_plugin on every entry of that list
CountOf(impls, plugin) == Cardinality({i \in 1..Len(impls) : impls[i].plugin = plugin})

RemoveFromCallers(m, plugin) ==
    IF get_name(m, plugin) = "" THEN m
    ELSE [m EXCEPT !.hook = [h \in HookNames |->
            RemoveTimes(m.hook[h], plugin, CountOf(get_hookimpls(m.hook[h]), plugin))]]

\* variant: unregister deletes the name and leaves the callers alone
unregisterNameOnly(m, plugin, name) ==
    LET name1 == IF name = "" /\ plugin # 0 THEN get_name(m, plugin) ELSE name
        plugin1 == IF plugin = 0 THEN get_plugin(m, name1) ELSE plugin
    IN  IF name = "" /\ plugin = 0
        THEN Outcome(m, "", 0, Exc("AssertionError", 0, "one of name or plugin"), <<>>)
        ELSE IF name1 = ""
        THEN Outcome(m, "", 0, Exc("AssertionError", 0, "plugin is not registered"), <<>>)
        ELSE IF plugin1 = 0 THEN Outcome(m, "", 0, NoExc, <<>>)
        ELSE Outcome(IF DictGet(m.name2plugin, name1) # 0
                     THEN [m EXCEPT !.name2plugin = DictDel(@, name1)]
                     ELSE m,
                     "", plugin1, NoExc, <<>>)
\* PluginManager.unregister(plugin, name); plugin 0 and name "" stand for None
unregister(m, plugin, name) ==
    LET name1 == IF name = "" /\ plugin # 0 THEN get_name(m, plugin) ELSE name
        plugin1 == IF plugin = 0 THEN get_plugin(m, name1) ELSE plugin
    IN  IF name = "" /\ plugin = 0
        THEN Outcome(m, "", 0, Exc("AssertionError", 0, "one of name or plugin"), <<>>)
        ELSE IF name1 = ""
        THEN Outcome(m, "", 0, Exc("AssertionError", 0, "plugin is not registered"), <<>>)
        ELSE IF plugin1 = 0 THEN Outcome(m, "", 0, NoExc, <<>>)
        ELSE LET m1 == RemoveFromCallers(m, plugin1)
                 m2 == IF DictGet(m1.name2plugin, name1) # 0
                       THEN [m1 EXCEPT !.name2plugin = DictDel(@, name1)]
                       ELSE m1
             IN  Outcome(m2, "", plugin1, NoExc, <<>>)

\* variant: the name is blocked and the plugin registered under it stays
set_blockedKeepingPlugin(m, name) ==
    Outcome([m EXCEPT !.name2plugin = DictSet(@, name, 0)], "", 0, NoExc, <<>>)
\* PluginManager.set_blocked
set_blocked(m, name) ==
    LET u == unregister(m, 0, name)
    IN  Outcome([u.m EXCEPT !.name2plugin = DictSet(@, name, 0)], "", 0, NoExc, <<>>)

\* variant: unblock reports the name as blocked and leaves it blocked
unblockInVain(m, name) ==
    IF is_blocked(m, name)
    THEN Outcome(m, "True", 0, NoExc, <<>>)
    ELSE Outcome(m, "False", 0, NoExc, <<>>)
\* PluginManager.unblock
unblock(m, name) ==
    IF is_blocked(m, name)
    THEN Outcome([m EXCEPT !.name2plugin = DictDel(@, name)], "True", 0, NoExc, <<>>)
    ELSE Outcome(m, "False", 0, NoExc, <<>>)

\* variant: wrappers are handed over like the other implementations
RECURSIVE HandoverWrappersToo(_, _, _)
HandoverWrappersToo(hc, old_hookimpls, k) ==
    IF k > Len(old_hookimpls) THEN [hc |-> hc, exc |-> NoExc]
    ELSE HandoverWrappersToo(
            [hc EXCEPT !.normal = _insert_hookimpl_into_list(old_hookimpls[k], @)],
            old_hookimpls, k + 1)
\* re-adding the old implementations to a new HistoricHookCaller
RECURSIVE Handover(_, _, _)
Handover(hc, old_hookimpls, k) ==
    IF k > Len(old_hookimpls) THEN [hc |-> hc, exc |-> NoExc]
    ELSE IF IsWrapper(old_hookimpls[k])
    THEN [hc |-> hc,
          exc |-> PluginValidationError(old_hookimpls[k].plugin,
                                        "Historic hooks do not support wrappers")]
    ELSE Handover([hc EXCEPT !.normal = _insert_hookimpl_into_list(old_hookimpls[k], @)],
                  old_hookimpls, k + 1)

\* the first exception _verify_hook raises over hc.get_hookimpls()
RECURSIVE VerifyAll(_, _, _)
VerifyAll(hc, impls, k) ==
    IF k > Len(impls) THEN NoExc
    ELSE IF _verify_hook(hc, impls[k]) # NoExc THEN _verify_hook(hc, impls[k])
    ELSE VerifyAll(hc, impls, k + 1)

\* the loop "for name in dir(module_or_class)" of add_hookspecs: namespace is
\* the sequence of the marked functions [name, spec], in dir() order
RECURSIVE AddSpecs(_, _, _)
AddSpecs(m, namespace, k) ==
    IF k > Len(namespace) THEN Outcome(m, "", 0, NoExc, <<>>)
    ELSE
      LET name == namespace[k].name
          spec == namespace[k].spec
          hc == m.hook[name]
      IN  IF hc.cls = ""
          THEN AddSpecs([m EXCEPT !.hook[name] =
                            IF spec.historic THEN HistoricHookCaller(spec)
                            ELSE NormalHookCaller(spec)],
                        namespace, k + 1)
          ELSE IF spec.historic /\ hc.cls = "NormalHookCaller"
          THEN LET ho == Handover(HistoricHookCaller(spec), get_hookimpls(hc), 1)
                   m1 == [m EXCEPT !.hook[name] = ho.hc]
                   verr == VerifyAll(ho.hc, get_hookimpls(ho.hc), 1)
               IN  IF ho.exc # NoExc THEN Outcome(m, "", 0, ho.exc, <<>>)
                   ELSE IF verr # NoExc THEN Outcome(m1, "", 0, verr, <<>>)
                   ELSE AddSpecs(m1, namespace, k + 1)
          ELSE IF is_historic(hc) \/ has_spec(hc)
          THEN Outcome(m, "", 0, Exc("ValueError", 0, "already has a specification"), <<>>)
          ELSE LET hc1 == [hc EXCEPT !.spec = spec]
                   m1 == [m EXCEPT !.hook[name] = hc1]
                   verr == VerifyAll(hc1, get_hookimpls(hc1), 1)
               IN  IF verr # NoExc THEN Outcome(m1, "", 0, verr, <<>>)
                   ELSE AddSpecs(m1, namespace, k + 1)

\* PluginManager.add_hookspecs
add_hookspecs(m, namespace) ==
    IF namespace = <<>>
    THEN Outcome(m, "", 0, Exc("ValueError", 0, "did not find any hooks"), <<>>)
    ELSE AddSpecs(m, namespace, 1)

\* the names of the relay's __dict__, which keeps them in the order in
\* which the callers were set; the model keeps the callers by name and visits
\* them in this order
RelayOrder == <<"g", "h", "hist">>

\* the first implementation of the list that is not marked optionalhook, as
\* the singleton of its position, {} if there is none
FirstRequired(impls) ==
    {i \in 1..Len(impls) : /\ ~impls[i].optionalhook
                            /\ \A j \in 1..(i - 1) : impls[j].optionalhook}

\* PluginManager.check_pending, from the k-th name of the relay on
RECURSIVE CheckPendingFrom(_, _)
CheckPendingFrom(m, k) ==
    IF k > Len(RelayOrder) THEN Outcome(m, "", 0, NoExc, <<>>)
    ELSE IF /\ m.hook[RelayOrder[k]].cls # ""
            /\ ~has_spec(m.hook[RelayOrder[k]])
            /\ FirstRequired(get_hookimpls(m.hook[RelayOrder[k]])) # {}
    THEN Outcome(m, "", 0,
            PluginValidationError(
                get_hookimpls(m.hook[RelayOrder[k]])[
                    CHOOSE i \in FirstRequired(get_hookimpls(m.hook[RelayOrder[k]])) : TRUE
                ].plugin,
                "unknown hook"),
            <<>>)
    ELSE CheckPendingFrom(m, k + 1)

\* variant: check_pending takes every implementation for optional
check_pendingLenient(m) == Outcome(m, "", 0, NoExc, <<>>)
\* PluginManager.check_pending
check_pending(m) == CheckPendingFrom(m, 1)

\* what the caller hands back from _hookexec
Returned(m, r) == [Outcome(m, "", 0, r.exception, r.log) EXCEPT !.ret = r.result]

\* variant: a historic caller is called like any other
callAnyCaller(m, hook_name, kwargs, nb, wb) ==
    Returned(m, _multicall(m.hook[hook_name].normal, m.hook[hook_name].wrappers,
                           kwargs,
                           has_spec(m.hook[hook_name])
                               /\ m.hook[hook_name].spec.firstresult,
                           nb, wb))
\* NormalHookCaller.__call__ and HistoricHookCaller.__call__
call(m, hook_name, kwargs, nb, wb) ==
    IF is_historic(m.hook[hook_name])
    THEN Outcome(m, "", 0, Exc("RuntimeError", 0, "Cannot directly call a historic hook"), <<>>)
    ELSE Returned(m, _multicall(m.hook[hook_name].normal, m.hook[hook_name].wrappers,
                                kwargs,
                                has_spec(m.hook[hook_name])
                                    /\ m.hook[hook_name].spec.firstresult,
                                nb, wb))

\* The monitors: 1 and 2 are pairs of functions (before, after) that the
\* host installs with add_hookcall_monitoring, 3 is the pair that
\* enable_tracing installs
Monitors == {1, 2, 3}
IsTracer(monitor) == monitor = 3

\* the undo function of a monitor: held when the monitor was installed and
\* the host has its undo function, oldcall is the _inner_hookexec the function
\* restores, called when the host has called it
NoUndo == [held |-> FALSE, oldcall |-> <<>>, called |-> FALSE]

\* what before and after do when they are called. A function of the host:
\* "pass" records and returns, "raise" raises, "force" calls
\* outcome.force_result. Those of enable_tracing: "pass" when the writer of
\* the tracer returns, "raise" when it raises
MonitorBeh == [before : {"pass", "raise"}, after : {"pass", "raise", "force"}]
ObserverBeh == [before : {"pass"}, after : {"pass"}]
TracerBeh == [before : {"pass", "raise"}, after : {"pass", "raise"}]

\* the exception a monitor raises, and the result a monitor forces
MonitorExc(which) == Exc("MonitorError", 0, which)
Forced == Obj(0)

\* the entry of the trace for a call of before or after of the monitor; n is
\* the length of combined_hook_impls, inres and inexc are the outcome handed
\* to after
MonitorEv(ev, n, monitor, beh, outcome) ==
    Ev(ev, n, [function |-> monitor], beh, <<>>, outcome.result, outcome.exception,
       None, IF beh = "raise" THEN MonitorExc(ev) ELSE NoExc)

\* what after of the monitor does with the outcome r: after of
\* enable_tracing writes only "if outcome.exception is None"
AfterBeh(monitor, beh, r) ==
    IF IsTracer(monitor) /\ r.exception # NoExc THEN "pass" ELSE beh.after

\* variant: after is handed an outcome without the exception of the call
AfterWithoutExc(r, n, monitor, beh) ==
    [log |-> <<MonitorEv("before", n, monitor, beh.before, State0)>> \o r.log
               \o <<MonitorEv("after", n, monitor, AfterBeh(monitor, beh, r),
                              [result |-> r.result, exception |-> NoExc])>>,
     result |-> IF AfterBeh(monitor, beh, r) = "pass" THEN r.result
                ELSE IF AfterBeh(monitor, beh, r) = "force" THEN Forced ELSE None,
     exception |-> IF AfterBeh(monitor, beh, r) = "pass" THEN r.exception
                   ELSE IF AfterBeh(monitor, beh, r) = "force" THEN NoExc
                   ELSE MonitorExc("after")]
\* traced_hookexec once before has returned and oldcall has left the outcome
\* r: "after(outcome, ...); return outcome.get_result()"
After(r, n, monitor, beh) ==
    [log |-> <<MonitorEv("before", n, monitor, beh.before, State0)>> \o r.log
               \o <<MonitorEv("after", n, monitor, AfterBeh(monitor, beh, r), r)>>,
     result |-> IF AfterBeh(monitor, beh, r) = "pass" THEN r.result
                ELSE IF AfterBeh(monitor, beh, r) = "force" THEN Forced ELSE None,
     exception |-> IF AfterBeh(monitor, beh, r) = "pass" THEN r.exception
                   ELSE IF AfterBeh(monitor, beh, r) = "force" THEN NoExc
                   ELSE MonitorExc("after")]

\* before of the monitor raised: traced_hookexec is left at once
BeforeRaised(n, monitor) ==
    [log |-> <<MonitorEv("before", n, monitor, "raise", State0)>>,
     result |-> None, exception |-> MonitorExc("before")]

\* the function at level k of the nesting inner: _multicall at level 0, and
\* above it the traced_hookexec that add_hookcall_monitoring made for the
\* monitor inner[k], whose oldcall is the function at level k - 1; mb gives
\* what before and after of each monitor do
RECURSIVE traced_hookexec(_, _, _, _, _, _, _, _, _)
traced_hookexec(inner, k, normal_impls, wrapper_impls, caller_kwargs, firstresult, nb, wb, mb) ==
    IF k = 0
    THEN _multicall(normal_impls, wrapper_impls, caller_kwargs, firstresult, nb, wb)
    ELSE IF mb[inner[k]].before = "raise"
    THEN BeforeRaised(Len(normal_impls) + Len(wrapper_impls), inner[k])
    ELSE After(traced_hookexec(inner, k - 1, normal_impls, wrapper_impls,
                               caller_kwargs, firstresult, nb, wb, mb),
               Len(normal_impls) + Len(wrapper_impls), inner[k], mb[inner[k]])

\* PluginManager._hookexec: "return self._inner_hookexec(...)"
_hookexec(inner, normal_impls, wrapper_impls, caller_kwargs, firstresult, nb, wb, mb) ==
    traced_hookexec(inner, Len(inner), normal_impls, wrapper_impls, caller_kwargs,
                    firstresult, nb, wb, mb)

\* what the monitors do in a call: those of the host as in hosts, that of
\* enable_tracing as in tracers
Behaviours(hosts, tracers) ==
    {[monitor \in Monitors |-> IF IsTracer(monitor) THEN t ELSE g] :
        g \in hosts, t \in tracers}

\* variant: after decrements the indent only when the call has returned
IndentStepWhenReturned(e, level) ==
    IF ~(e.ev \in {"before", "after"} /\ IsTracer(e.function)) THEN level
    ELSE IF e.ev = "before" THEN level + 1
    ELSE IF e.beh = "raise" \/ e.inexc # NoExc THEN level
    ELSE level - 1
\* before of enable_tracing: "hooktrace.root.indent += 1" and then the
\* write; after of enable_tracing: the write "if outcome.exception is None"
\* and then "hooktrace.root.indent -= 1"
IndentStep(e, level) ==
    IF ~(e.ev \in {"before", "after"} /\ IsTracer(e.function)) THEN level
    ELSE IF e.ev = "before" THEN level + 1
    ELSE IF e.beh = "raise" THEN level
    ELSE level - 1

\* the indent of the tracer when the entry p of the trace is made, in a call
\* that started with the indent level
RECURSIVE IndentAt(_, _, _)
IndentAt(log, p, level) ==
    IF p <= 1 THEN level
    ELSE IndentStep(log[p - 1], IndentAt(log, p - 1, level))

\* the hook call of a manager whose _inner_hookexec is inner
hook_call(m, inner, hook_name, kwargs, nb, wb, mb) ==
    IF is_historic(m.hook[hook_name])
    THEN Outcome(m, "", 0, Exc("RuntimeError", 0, "Cannot directly call a historic hook"), <<>>)
    ELSE Returned(m, _hookexec(inner, m.hook[hook_name].normal,
                               m.hook[hook_name].wrappers, kwargs,
                               has_spec(m.hook[hook_name])
                                   /\ m.hook[hook_name].spec.firstresult,
                               nb, wb, mb))

\* A function of a normal implementation that calls another hook of the
\* manager when it is run, and raises when that call raises: what the
\* functions of the outer call do when the inner call has left ri
CalledBy(nb, normal_impls, who, ri) ==
    [i \in DOMAIN nb |->
        IF normal_impls[i].function = who /\ ri.exception # NoExc
        THEN "raise" ELSE nb[i]]

\* the position of the trace at which the function who returned or raised
\* (0: it was not run)
RanAt(log, who) ==
    IF \E q \in 1..Len(log) : log[q].ev = "call" /\ log[q].function = who
    THEN CHOOSE q \in 1..Len(log) : log[q].ev = "call" /\ log[q].function = who
    ELSE 0

\* the trace of the outer call with the trace of the inner call where the
\* function who made it
Spliced(outer_log, inner_log, who) ==
    IF RanAt(outer_log, who) = 0 THEN outer_log
    ELSE SubSeq(outer_log, 1, RanAt(outer_log, who) - 1) \o inner_log
            \o SubSeq(outer_log, RanAt(outer_log, who), Len(outer_log))

\* the outer call has left ro and the inner call ri
Nesting(ro, ri, who) == [ro EXCEPT !.log = Spliced(ro.log, ri.log, who)]

\* the outer call once the inner call, when it is made, leaves ri
NestedAround(m, inner, hook_name, who, kwargs, nb, wb, mb, ri) ==
    Nesting(_hookexec(inner, m.hook[hook_name].normal, m.hook[hook_name].wrappers,
                      kwargs,
                      has_spec(m.hook[hook_name]) /\ m.hook[hook_name].spec.firstresult,
                      CalledBy(nb, m.hook[hook_name].normal, who, ri), wb, mb),
            ri, who)

\* manager.hook.<hook_name>(**kwargs) where the function who of a normal
\* implementation calls manager.hook.<inner_name>(**kwargs)
nested_call(m, inner, hook_name, inner_name, who, kwargs, nb, wb, mb, nbi, wbi, mbi) ==
    [Returned(m, NestedAround(m, inner, hook_name, who, kwargs, nb, wb, mb,
                _hookexec(inner, m.hook[inner_name].normal,
                          m.hook[inner_name].wrappers, kwargs,
                          has_spec(m.hook[inner_name])
                              /\ m.hook[inner_name].spec.firstresult,
                          nbi, wbi, mbi)))
     EXCEPT !.given = <<who>>]

\* What an implementation does to the manager when it is run: the behaviours
\* "register" and "unregister" are manager.register(q) and
\* manager.unregister(q) made by the function, which then returns None or
\* lets the exception of the operation through; the others leave the manager
Reenter(m, beh, q, rb) ==
    CASE beh = "register" -> register(m, q, "", rb)
      [] beh = "unregister" -> unregister(m, q, "")
      [] OTHER -> Outcome(m, "", 0, NoExc, <<>>)

\* variant: the call loop iterates over the caller's own list
HandedLive(copy, _normal_hookimpls) == _normal_hookimpls
\* self._normal_hookimpls.copy(): the list handed to _hookexec is the copy made
\* when the call started, whatever the caller's list has become since
Handed(copy, _normal_hookimpls) == copy

\* the function of hook_impl has run and did o to the manager; rs holds the
\* locals of _multicall (st), the manager (m) and the position of the
\* iterator of reversed(normal_impls) (index, counted from 0); what the
\* operation replayed while the function ran comes before the function's
\* own entry in the trace
Reentered(hook_impl, beh, caller_kwargs, firstresult, o, rs) ==
    [st |-> CallImpl(hook_impl, rs.index + 1, beh,
                     CallArgs(hook_impl.argnames, caller_kwargs), firstresult,
                     CASE beh = "raise" -> UserError(hook_impl)
                       [] beh = "stopiter" -> StopIterationOf(hook_impl)
                       [] beh = "runtimeerror" -> RuntimeErrorOf(hook_impl)
                       [] OTHER -> o.exc,
                     IF beh = "value" THEN RetOf(hook_impl) ELSE None,
                     [rs.st EXCEPT !.log = @ \o o.log]),
     m |-> o.m,
     index |-> rs.index - 1]

\* one iteration of phase 2 with functions that call back into the manager;
\* acts gives the behaviour of every function
ReenterAt(hook_impl, caller_kwargs, firstresult, acts, q, rb, rs) ==
    IF FirstMissing(hook_impl.argnames, caller_kwargs, 1) # ""
    THEN [rs EXCEPT !.st.exception =
                        HookCallError(FirstMissing(hook_impl.argnames, caller_kwargs, 1))]
    ELSE Reentered(hook_impl, acts[hook_impl.function], caller_kwargs, firstresult,
                   Reenter(rs.m, acts[hook_impl.function], q, rb), rs)

\* Phase 2 as the iterator of reversed(normal_impls) runs it: the iterator
\* yields the element at its index as long as the index is within the list it
\* iterates, and moves towards the front
RECURSIVE RunReentrant(_, _, _, _, _, _, _, _)
RunReentrant(hook_name, copy, caller_kwargs, firstresult, acts, q, rb, rs) ==
    IF \/ rs.index < 0
       \/ rs.index >= Len(Handed(copy, rs.m.hook[hook_name].normal))
       \/ rs.st.exception # NoExc
       \/ rs.st.halt
    THEN rs
    ELSE RunReentrant(hook_name, copy, caller_kwargs, firstresult, acts, q, rb,
            ReenterAt(Handed(copy, rs.m.hook[hook_name].normal)[rs.index + 1],
                      caller_kwargs, firstresult, acts, q, rb, rs))

\* the finally clause and the end of _multicall after phase 2 left rs
ReentrantLeft(wrapper_impls, wb, firstresult, rs) ==
    Returned(rs.m,
             Leave(RunTeardowns(wrapper_impls, wb, 1, Finally(firstresult, rs.st))))

\* NormalHookCaller.__call__ with functions that call back into the manager
call_reentrant(m, hook_name, kwargs, acts, q, rb, wb) ==
    ReentrantLeft(m.hook[hook_name].wrappers, wb,
        has_spec(m.hook[hook_name]) /\ m.hook[hook_name].spec.firstresult,
        RunReentrant(hook_name, m.hook[hook_name].normal, kwargs,
            has_spec(m.hook[hook_name]) /\ m.hook[hook_name].spec.firstresult,
            acts, q, rb,
            [st |-> SetupWrappers(m.hook[hook_name].wrappers, kwargs, wb, 1, State0),
             m |-> m,
             index |-> Len(m.hook[hook_name].normal) - 1]))

\* the functions handed to call_extra as methods, and their argnames
Methods == {901, 902}
MethodArgnames(method) == IF method = 901 THEN <<"a">> ELSE <<>>

\* variant: the method takes part as a tryfirst implementation
TempHookImplTryfirst(hook_name, method) ==
    HookImpl(0, Attr(method, hook_name, "normal", TRUE, FALSE, FALSE,
                     MethodArgnames(method), FALSE))
\* config.create_hookimpl(None, "<temp>", method) with the default
\* HookimplConfiguration: an unmarked normal implementation of no plugin
TempHookImpl(hook_name, method) ==
    HookImpl(0, Attr(method, hook_name, "normal", FALSE, FALSE, FALSE,
                     MethodArgnames(method), FALSE))

\* "for method in methods: _insert_hookimpl_into_list(hookimpl, list)"
RECURSIVE InsertMethods(_, _, _, _)
InsertMethods(hook_name, target_list, methods, k) ==
    IF k > Len(methods) THEN target_list
    ELSE InsertMethods(hook_name,
            _insert_hookimpl_into_list(TempHookImpl(hook_name, methods[k]), target_list),
            methods, k + 1)

\* variant: the methods are inserted into the caller's own list
CallExtraListsInPlace(hook_name, _normal_hookimpls, methods) ==
    [own |-> InsertMethods(hook_name, _normal_hookimpls, methods, 1),
     passed |-> InsertMethods(hook_name, _normal_hookimpls, methods, 1)]
\* The two lists of call_extra: own is the caller's _normal_hookimpls, passed
\* is normal_hookimpls, the copy of it into which the methods are inserted
\* and which is handed to _hookexec
CallExtraLists(hook_name, _normal_hookimpls, methods) ==
    [own |-> _normal_hookimpls,
     passed |-> InsertMethods(hook_name, _normal_hookimpls, methods, 1)]

\* call_extra once the lists are made
CallExtraWith(m, hook_name, lists, methods, kwargs, nb, wb) ==
    [Returned([m EXCEPT !.hook[hook_name].normal = lists.own],
              _multicall(lists.passed, m.hook[hook_name].wrappers, kwargs,
                         has_spec(m.hook[hook_name])
                            /\ m.hook[hook_name].spec.firstresult,
                         nb, wb))
     EXCEPT !.given = methods]

\* NormalHookCaller.call_extra and HistoricHookCaller.call_extra
call_extra(m, hook_name, methods, kwargs, nb, wb) ==
    IF is_historic(m.hook[hook_name])
    THEN [Outcome(m, "", 0,
                  Exc("RuntimeError", 0, "Cannot call call_extra on a historic hook"),
                  <<>>)
          EXCEPT !.given = methods]
    ELSE CallExtraWith(m, hook_name,
                       CallExtraLists(hook_name, m.hook[hook_name].normal, methods),
                       methods, kwargs, nb, wb)

\* subset_hook_caller: plugins_to_remove
plugins_to_remove(remove_plugins, name) ==
    {plug \in Range(remove_plugins) : hasattr(plug, name)}

\* SubsetHookCaller._get_filtered
_get_filtered(hooks, remove) ==
    SelectSeq(hooks, LAMBDA impl : impl.plugin \notin remove)

\* SubsetHookCaller.__call__ on the proxy of the caller orig
SubsetCalled(m, orig, remove, kwargs, nb, wb) ==
    IF is_historic(orig)
    THEN Outcome(m, "", 0, Exc("RuntimeError", 0, "Cannot directly call a historic hook"), <<>>)
    ELSE Returned(m, _multicall(_get_filtered(orig.normal, remove),
                                _get_filtered(orig.wrappers, remove),
                                kwargs,
                                has_spec(orig) /\ orig.spec.firstresult,
                                nb, wb))

\* manager.subset_hook_caller(name, remove_plugins)(**kwargs): the manager
\* returns the caller itself when no plugin is to be removed
subset_call(m, name, remove_plugins, kwargs, nb, wb) ==
    [(IF plugins_to_remove(remove_plugins, name) = {}
      THEN call(m, name, kwargs, nb, wb)
      ELSE SubsetCalled(m, m.hook[name], plugins_to_remove(remove_plugins, name),
                        kwargs, nb, wb))
     EXCEPT !.given = remove_plugins]

\* the callbacks call_historic makes: one for each element of the result list
Callbacks(res, callback) ==
    IF callback /\ res.t = "list"
    THEN [j \in 1..Len(res.items) |->
            Ev("callback", 0, [function |-> res.items[j]], "", <<>>,
               Obj(res.items[j]), NoExc, None, NoExc)]
    ELSE <<>>

\* call_historic after _hookexec answered r
Historized(m, callback, r) ==
    IF r.exception # NoExc THEN Outcome(m, "", 0, r.exception, r.log)
    ELSE Outcome(m, "", 0, NoExc, r.log \o Callbacks(r.result, callback))

\* variant: the recorded call takes the place of the call history
call_historicForgetting(m, hook_name, callback, kwargs, nb) ==
    IF ~is_historic(m.hook[hook_name])
    THEN Outcome(m, "", 0, Exc("AssertionError", 0, "is not historic"), <<>>)
    ELSE Historized([m EXCEPT !.hook[hook_name].history =
                        <<[kwargs |-> kwargs, callback |-> callback]>>],
                    callback,
                    _multicall(m.hook[hook_name].normal, <<>>, kwargs, FALSE, nb, <<>>))
\* HistoricHookCaller.call_historic and NormalHookCaller.call_historic
call_historic(m, hook_name, callback, kwargs, nb) ==
    IF ~is_historic(m.hook[hook_name])
    THEN Outcome(m, "", 0, Exc("AssertionError", 0, "is not historic"), <<>>)
    ELSE Historized([m EXCEPT !.hook[hook_name].history =
                        Append(@, [kwargs |-> kwargs, callback |-> callback])],
                    callback,
                    _multicall(m.hook[hook_name].normal, <<>>, kwargs, FALSE, nb, <<>>))

\* variant: the call is made and not recorded
subset_call_historicUnrecorded(m, hook_name, remove, callback, kwargs, nb) ==
    IF ~is_historic(m.hook[hook_name])
    THEN Outcome(m, "", 0, Exc("AssertionError", 0, "is not historic"), <<>>)
    ELSE Historized(m, callback,
                    _multicall(_get_filtered(m.hook[hook_name].normal, remove),
                               <<>>, kwargs, FALSE, nb, <<>>))
\* call_historic from its call of _hookexec on, with functions that call
\* back into the manager; m holds the history the call started with
DispatchReentrant(m, hook_name, callback, kwargs, acts, q, rb) ==
    RunReentrant(hook_name, m.hook[hook_name].normal, kwargs, FALSE, acts, q, rb,
                 [st |-> State0, m |-> m, index |-> Len(m.hook[hook_name].normal) - 1])

\* call_historic after the dispatch left rs
HistorizedReentrant(callback, rs) ==
    Historized(rs.m, callback, Leave(RunTeardowns(<<>>, <<>>, 1, Finally(FALSE, rs.st))))

\* variant: the call is recorded after it was dispatched
call_historic_reentrantRecordingLast(m, hook_name, callback, kwargs, acts, q, rb) ==
    IF ~is_historic(m.hook[hook_name])
    THEN Outcome(m, "", 0, Exc("AssertionError", 0, "is not historic"), <<>>)
    ELSE [HistorizedReentrant(callback,
             DispatchReentrant(m, hook_name, callback, kwargs, acts, q, rb))
          EXCEPT !.m.hook[hook_name].history =
                    Append(@, [kwargs |-> kwargs, callback |-> callback])]
\* HistoricHookCaller.call_historic with functions that call the manager
call_historic_reentrant(m, hook_name, callback, kwargs, acts, q, rb) ==
    IF ~is_historic(m.hook[hook_name])
    THEN Outcome(m, "", 0, Exc("AssertionError", 0, "is not historic"), <<>>)
    ELSE HistorizedReentrant(callback,
            DispatchReentrant([m EXCEPT !.hook[hook_name].history =
                                  Append(@, [kwargs |-> kwargs, callback |-> callback])],
                              hook_name, callback, kwargs, acts, q, rb))

\* SubsetHookCaller.call_historic on the proxy of the caller m.hook[hook_name]
subset_call_historic(m, hook_name, remove, callback, kwargs, nb) ==
    IF ~is_historic(m.hook[hook_name])
    THEN Outcome(m, "", 0, Exc("AssertionError", 0, "is not historic"), <<>>)
    ELSE Historized([m EXCEPT !.hook[hook_name].history =
                        Append(@, [kwargs |-> kwargs, callback |-> callback])],
                    callback,
                    _multicall(_get_filtered(m.hook[hook_name].normal, remove),
                               <<>>, kwargs, FALSE, nb, <<>>))

----------------------------------------------------------------------------
(* State, inputs and actions *)

Manager == [name2plugin |-> name2plugin, hook |-> hook]

\* the marked functions of the namespaces handed to add_hookspecs
NsNormal == <<[name |-> "h", spec |-> HookSpec(FALSE, FALSE, <<"a", "b">>)]>>
NsFirst == <<[name |-> "h", spec |-> HookSpec(TRUE, FALSE, <<"a", "b">>)]>>
NsHist == <<[name |-> "hist", spec |-> HookSpec(FALSE, TRUE, <<"a">>)]>>
NsHistH == <<[name |-> "h", spec |-> HookSpec(FALSE, TRUE, <<"a", "b">>)]>>
NsBoth == <<[name |-> "g", spec |-> HookSpec(FALSE, FALSE, <<"a">>)],
            [name |-> "h", spec |-> HookSpec(FALSE, FALSE, <<"a", "b">>)]>>

\* the record kept of the last operation: its arguments, the manager before
\* it, what it returned or raised, and its trace
Last(op, plugin, name, hook_name, kwargs, callback, pre, o) ==
    [op |-> op, plugin |-> plugin, name |-> name, hook_name |-> hook_name,
     kwargs |-> kwargs, callback |-> callback, pre |-> pre,
     retname |-> o.retname, retplugin |-> o.retplugin, ret |-> o.ret,
     exc |-> o.exc, log |-> o.log, given |-> o.given]

NoLast == Last("", 0, "", "", NoKwargs, FALSE,
               [name2plugin |-> <<>>, hook |-> [h \in HookNames |-> NoCaller]],
               Outcome(0, "", 0, NoExc, <<>>))

\* The host inspects the outcome of the last operation of a run. A run of
\* the model either goes on after an operation, and the record of it is
\* dropped, or it ends with the operation, and the record is kept; the
\* operations whose outcome is inspected are named in universe.keeps. After
\* an operation that left the manager as it was (same), going on is going on
\* from the state before it.
Keep(rec, same) ==
    IF rec.op \notin universe.keeps THEN {NoLast}
    ELSE IF same THEN {rec}
    ELSE {rec, NoLast}

\* The caller subset_hook_caller returned refers to the caller object that
\* was the attribute of the relay when it was made (_orig, or that object
\* itself when no plugin is to be removed). live: the object is still the
\* attribute of the relay; if not, orig is the object, which the manager no
\* longer reaches.
NoSubset == [name |-> "", remove |-> {}, given |-> <<>>, live |-> TRUE,
             orig |-> NoCaller]

\* setattr(self.hook, name, hc) of the handover in add_hookspecs puts a new
\* HistoricHookCaller in the place of the NormalHookCaller, which a caller
\* made by subset_hook_caller before goes on referring to
Carried(s, m) ==
    IF /\ s.name # "" /\ s.live
       /\ hook[s.name].cls = "NormalHookCaller"
       /\ m.hook[s.name].cls = "HistoricHookCaller"
    THEN [s EXCEPT !.live = FALSE, !.orig = hook[s.name]]
    ELSE s

\* the operation op, whose outcome is o, takes effect
Step(op, plugin, name, hook_name, kwargs, callback, o) ==
    /\ name2plugin' = o.m.name2plugin
    /\ hook' = o.m.hook
    /\ last' \in Keep(Last(op, plugin, name, hook_name, kwargs, callback, Manager, o),
                      o.m = Manager)
    /\ subset' = Carried(subset, o.m)
    /\ UNCHANGED <<universe, inner_hookexec, undos, indent, plugin_distinfo>>

\* the longest call history of a caller
MaxOver(S) == IF S = {} THEN 0
              ELSE LET x == CHOOSE x \in S : \A y \in S : y <= x IN x
HistLen == MaxOver({Len(hook[h].history) : h \in HookNames})

\* no outcome is being inspected: the run goes on
Idle == last = NoLast

\* the bounds on what a registration may lead to
Within(o) ==
    /\ Cardinality(get_plugins(o.m)) <= MaxPlugins
    /\ \A h \in HookNames : Len(get_hookimpls(o.m.hook[h])) <= MaxImpls

Registering(plugin, name, o) ==
    /\ Within(o)
    /\ Step("register", plugin, name, "", NoKwargs, FALSE, o)

\* manager.register(plugin, name)
Register(plugin, name) ==
    /\ Idle
    /\ \E rb \in [1..HistLen -> universe.nbeh] :
         Registering(plugin, name, register(Manager, plugin, name, rb))

\* manager.register(plugin) where the plugins are few and no bound is needed
RegisterPlugin(plugin) ==
    /\ Idle
    /\ Step("register", plugin, "", "", NoKwargs, FALSE,
            register(Manager, plugin, "", <<>>))

\* register has returned the name of the plugin, and unregister of the plugin
\* follows: what the two leave
ThenUnregister(plugin, o) ==
    [unregister(o.m, plugin, "") EXCEPT !.retname = o.retname, !.log = o.log]

RegisteredThenUnregistered(plugin, name, o) ==
    /\ Within(o)
    /\ o.exc = NoExc
    /\ o.retname # ""
    /\ Step("register_unregister", plugin, name, "", NoKwargs, FALSE,
            ThenUnregister(plugin, o))

\* manager.register(plugin, name) followed by manager.unregister(plugin)
RegisterUnregister(plugin, name) ==
    /\ Idle
    /\ \E rb \in [1..HistLen -> universe.nbeh] :
         RegisteredThenUnregistered(plugin, name, register(Manager, plugin, name, rb))

\* manager.unregister(plugin, name)
Unregister(plugin, name) ==
    /\ Idle
    /\ Step("unregister", plugin, name, "", NoKwargs, FALSE,
            unregister(Manager, plugin, name))

\* manager.unregister(plugin, name) as its docstring asks for it: with the
\* plugin, with the name, or with both when the name is the plugin's
UnregisterAgreeing(plugin, name) ==
    /\ plugin = 0 \/ name = "" \/ get_plugin(Manager, name) = plugin
    /\ Unregister(plugin, name)

\* manager.set_blocked(name)
SetBlocked(name) ==
    /\ Idle
    /\ Step("set_blocked", 0, name, "", NoKwargs, FALSE, set_blocked(Manager, name))

\* manager.unblock(name)
Unblock(name) ==
    /\ Idle
    /\ Step("unblock", 0, name, "", NoKwargs, FALSE, unblock(Manager, name))

\* manager.set_blocked(name) followed by manager.unblock(name)
SetBlockedUnblock(name) ==
    /\ Idle
    /\ Step("set_blocked_unblock", 0, name, "", NoKwargs, FALSE,
            unblock(set_blocked(Manager, name).m, name))

\* the hook call whose outcome is o takes effect: before and after of
\* enable_tracing have moved the indent of the tracer
HookCalled(op, name, hook_name, kwargs, o) ==
    /\ IndentAt(o.log, Len(o.log) + 1, indent) <= MaxIndent
    /\ name2plugin' = o.m.name2plugin
    /\ hook' = o.m.hook
    /\ last' \in Keep(Last(op, 0, name, hook_name, kwargs, FALSE, Manager, o),
                      IndentAt(o.log, Len(o.log) + 1, indent) = indent)
    /\ indent' = IndentAt(o.log, Len(o.log) + 1, indent)
    /\ UNCHANGED <<universe, inner_hookexec, undos, plugin_distinfo, subset>>

\* manager.hook.<hook_name>(**kwargs) with the monitors that are installed;
\* behs is what the monitors may do
HookCall(hook_name, kwargs, behs) ==
    /\ Idle
    /\ hook[hook_name].cls # ""
    /\ \E nb \in [1..Len(hook[hook_name].normal) -> universe.nbeh],
          wb \in [1..Len(hook[hook_name].wrappers) -> universe.wbeh],
          mb \in behs :
         HookCalled("hook_call", "", hook_name, kwargs,
              hook_call(Manager, inner_hookexec, hook_name, kwargs, nb, wb, mb))

\* manager.hook.<hook_name>(**kwargs) where the function who calls
\* manager.hook.<inner_name>(**kwargs) when it is run
NestedHookCall(hook_name, inner_name, who, kwargs, behs) ==
    /\ Idle
    /\ hook[hook_name].cls = "NormalHookCaller"
    /\ hook[inner_name].cls = "NormalHookCaller"
    /\ \E i \in 1..Len(hook[hook_name].normal) :
          hook[hook_name].normal[i].function = who
    /\ \E nb \in [1..Len(hook[hook_name].normal) -> universe.nbeh],
          wb \in [1..Len(hook[hook_name].wrappers) -> universe.wbeh],
          nbi \in [1..Len(hook[inner_name].normal) -> universe.nbeh],
          wbi \in [1..Len(hook[inner_name].wrappers) -> universe.wbeh],
          mb \in behs, mbi \in behs :
         HookCalled("nested_call", inner_name, hook_name, kwargs,
              nested_call(Manager, inner_hookexec, hook_name, inner_name, who,
                          kwargs, nb, wb, mb, nbi, wbi, mbi))

\* the monitor is installed around _inner_hookexec and the host holds its
\* undo function, which restores the _inner_hookexec of this moment
Install(monitor) ==
    /\ Idle
    /\ ~undos[monitor].held
    /\ inner_hookexec' = Append(inner_hookexec, monitor)
    /\ undos' = [undos EXCEPT ![monitor] =
                    [held |-> TRUE, oldcall |-> inner_hookexec, called |-> FALSE]]
    /\ UNCHANGED <<name2plugin, hook, universe, last, indent, plugin_distinfo,
                   subset>>

\* undo = manager.add_hookcall_monitoring(before, after) with the functions
\* of the monitor
AddHookcallMonitoring(monitor) == ~IsTracer(monitor) /\ Install(monitor)

\* undo = manager.enable_tracing()
EnableTracing == \E monitor \in Monitors : IsTracer(monitor) /\ Install(monitor)

\* undo(), the function that was returned when the monitor was installed
Undo(monitor) ==
    /\ Idle
    /\ undos[monitor].held
    /\ inner_hookexec' = undos[monitor].oldcall
    /\ undos' = [undos EXCEPT ![monitor].called = TRUE]
    /\ UNCHANGED <<name2plugin, hook, universe, last, indent, plugin_distinfo,
                   subset>>

\* manager.add_hookspecs(namespace)
AddHookspecs(namespace) ==
    /\ Idle
    /\ Step("add_hookspecs", 0, "", namespace[1].name, NoKwargs, FALSE,
            add_hookspecs(Manager, namespace))

\* manager.check_pending()
CheckPending ==
    /\ Idle
    /\ Step("check_pending", 0, "", "", NoKwargs, FALSE, check_pending(Manager))

\* add_hookspecs has returned and check_pending follows
AddedThenChecked(namespace, o) ==
    /\ o.exc = NoExc
    /\ Step("add_hookspecs_check_pending", 0, "", namespace[1].name, NoKwargs, FALSE,
            check_pending(o.m))

\* manager.add_hookspecs(namespace) followed by manager.check_pending()
AddHookspecsCheckPending(namespace) ==
    /\ Idle
    /\ AddedThenChecked(namespace, add_hookspecs(Manager, namespace))

\* unregister has returned the plugin and check_pending follows
UnregisteredThenChecked(plugin, o) ==
    /\ o.exc = NoExc
    /\ o.retplugin = plugin
    /\ Step("unregister_check_pending", plugin, "", "", NoKwargs, FALSE,
            check_pending(o.m))

\* manager.unregister(plugin) followed by manager.check_pending()
UnregisterCheckPending(plugin) ==
    /\ Idle
    /\ UnregisteredThenChecked(plugin, unregister(Manager, plugin, ""))

\* manager.hook.<hook_name>(**kwargs); the relay has the attribute
Call(hook_name, kwargs) ==
    /\ Idle
    /\ hook[hook_name].cls # ""
    /\ \E nb \in [1..Len(hook[hook_name].normal) -> universe.nbeh],
          wb \in [1..Len(hook[hook_name].wrappers) -> universe.wbeh] :
         Step("call", 0, "", hook_name, kwargs, FALSE,
              call(Manager, hook_name, kwargs, nb, wb))

\* the lists of at most two different elements of S
ListsOf(S) ==
    {<<>>} \cup {<<x>> : x \in S} \cup {xy \in S \X S : xy[1] # xy[2]}

\* manager.subset_hook_caller(hook_name, remove_plugins)(**kwargs)
SubsetCall(hook_name, remove_plugins, kwargs) ==
    /\ Idle
    /\ hook[hook_name].cls # ""
    /\ \E nb \in [1..Len(_get_filtered(hook[hook_name].normal,
                        plugins_to_remove(remove_plugins, hook_name))) -> universe.nbeh],
          wb \in [1..Len(_get_filtered(hook[hook_name].wrappers,
                        plugins_to_remove(remove_plugins, hook_name))) -> universe.wbeh] :
         Step("subset_call", 0, "", hook_name, kwargs, FALSE,
              subset_call(Manager, hook_name, remove_plugins, kwargs, nb, wb))

\* the functions of the normal implementations a caller holds
NormalFunctions(hc) == {hc.normal[i].function : i \in 1..Len(hc.normal)}

\* the behaviours of a call in which the function who does op and the
\* other functions return None
Acts(who, op) == [f \in 1..999 |-> IF f = who THEN op ELSE "none"]

CalledReentrant(hook_name, kwargs, who, op, q, o) ==
    /\ Within(o)
    /\ Step("call_reentrant", q, op, hook_name, kwargs, FALSE,
            [o EXCEPT !.given = <<who>>])

\* manager.hook.<hook_name>(**kwargs) where the function who of a normal
\* implementation registers or unregisters the plugin q when it is run
CallReentrant(hook_name, kwargs, who, op, q) ==
    /\ Idle
    /\ hook[hook_name].cls = "NormalHookCaller"
    /\ who \in NormalFunctions(hook[hook_name])
    /\ \E rb \in [1..HistLen -> universe.nbeh],
          wb \in [1..Len(hook[hook_name].wrappers) -> universe.wbeh] :
         CalledReentrant(hook_name, kwargs, who, op, q,
             call_reentrant(Manager, hook_name, kwargs, Acts(who, op), q, rb, wb))

\* manager.hook.<hook_name>.call_historic(result_callback, kwargs) where
\* the function who of an implementation registers or unregisters the plugin
\* q when it is run
CallHistoricReentrant(hook_name, callback, kwargs, who, op, q) ==
    /\ Idle
    /\ hook[hook_name].cls = "HistoricHookCaller"
    /\ Len(hook[hook_name].history) < MaxHistory
    /\ who \in NormalFunctions(hook[hook_name])
    /\ \E rb \in [1..(HistLen + 1) -> universe.nbeh] :
         /\ Within(call_historic_reentrant(Manager, hook_name, callback, kwargs,
                                           Acts(who, op), q, rb))
         /\ Step("call_historic_reentrant", q, op, hook_name, kwargs, callback,
                 [call_historic_reentrant(Manager, hook_name, callback, kwargs,
                                          Acts(who, op), q, rb)
                    EXCEPT !.given = <<who>>])

\* manager.hook.<hook_name>.call_extra(methods, kwargs)
CallExtra(hook_name, methods, kwargs) ==
    /\ Idle
    /\ hook[hook_name].cls # ""
    /\ \E nb \in [1..(IF is_historic(hook[hook_name]) THEN 0
                       ELSE Len(hook[hook_name].normal) + Len(methods))
                    -> universe.nbeh],
          wb \in [1..Len(hook[hook_name].wrappers) -> universe.wbeh] :
         Step("call_extra", 0, "", hook_name, kwargs, FALSE,
              call_extra(Manager, hook_name, methods, kwargs, nb, wb))

\* manager.hook.<hook_name>.call_historic(result_callback, kwargs)
CallHistoric(hook_name, callback, kwargs) ==
    /\ Idle
    /\ hook[hook_name].cls # ""
    /\ Len(hook[hook_name].history) < MaxHistory
    /\ \E nb \in [1..Len(hook[hook_name].normal) -> universe.nbeh] :
         Step("call_historic", 0, "", hook_name, kwargs, callback,
              call_historic(Manager, hook_name, callback, kwargs, nb))

\* sub = manager.subset_hook_caller(hook_name, remove_plugins), which the
\* host keeps
SubsetHookCaller(hook_name, remove_plugins) ==
    /\ Idle
    /\ subset = NoSubset
    /\ hook[hook_name].cls # ""
    /\ subset' = [name |-> hook_name,
                  remove |-> plugins_to_remove(remove_plugins, hook_name),
                  given |-> remove_plugins, live |-> TRUE, orig |-> NoCaller]
    /\ UNCHANGED <<name2plugin, hook, universe, last, inner_hookexec, undos,
                   indent, plugin_distinfo>>

\* the caller object the kept caller refers to
TheOrig == IF subset.live THEN hook[subset.name] ELSE subset.orig

\* sub(**kwargs)
SubsetCallHeld(kwargs) ==
    /\ Idle
    /\ subset # NoSubset
    /\ \E nb \in [1..Len(_get_filtered(TheOrig.normal, subset.remove))
                     -> universe.nbeh],
          wb \in [1..Len(_get_filtered(TheOrig.wrappers, subset.remove))
                     -> universe.wbeh] :
         Step("subset_held_call", 0, "", subset.name, kwargs, FALSE,
              [SubsetCalled(Manager, TheOrig, subset.remove, kwargs, nb, wb)
                 EXCEPT !.given = subset.given])

\* sub.call_historic(callback, kwargs); a NormalHookCaller that the relay
\* has replaced raises like one that it still holds
SubsetCallHistoricHeld(callback, kwargs) ==
    /\ Idle
    /\ subset # NoSubset
    /\ Len(hook[subset.name].history) < MaxHistory
    /\ \E nb \in [1..Len(_get_filtered(hook[subset.name].normal, subset.remove))
                     -> universe.nbeh] :
         Step("subset_call_historic", 0, "", subset.name, kwargs, callback,
              [(IF subset.live
                THEN subset_call_historic(Manager, subset.name, subset.remove,
                                          callback, kwargs, nb)
                ELSE Outcome(Manager, "", 0,
                             Exc("AssertionError", 0, "is not historic"), <<>>))
                 EXCEPT !.given = subset.given])

InitManager ==
    /\ name2plugin = <<>>
    /\ hook = [h \in HookNames |-> NoCaller]
    /\ last = NoLast
    /\ inner_hookexec = <<>>
    /\ undos = [monitor \in Monitors |-> NoUndo]
    /\ indent = 0
    /\ plugin_distinfo = <<>>
    /\ subset = NoSubset

----------------------------------------------------------------------------
(* Hook calls on a caller with normal implementations and wrappers *)

InitCall ==
    /\ InitManager
    /\ universe = [plugins |-> 1..6, names |-> {""},
                   namespaces |-> {NsNormal, NsFirst},
                   kwargs |-> {[a |-> 1, b |-> 0], [a |-> 1, b |-> 1]},
                   callbacks |-> {FALSE}, blockable |-> {},
                   nbeh |-> NormalBeh, wbeh |-> WrapBeh \ {"yield2close"},
                   keeps |-> {"call"}]

NextCall ==
    \/ \E p \in universe.plugins, n \in universe.names : Register(p, n)
    \/ \E p \in universe.plugins : Unregister(p, "")
    \/ \E ns \in universe.namespaces : AddHookspecs(ns)
    \/ \E kw \in universe.kwargs : Call("h", kw)

SpecCall == InitCall /\ [][NextCall]_vars

----------------------------------------------------------------------------
(* Hook calls whose normal implementations raise exceptions of every kind *)

InitRaise ==
    /\ InitManager
    /\ universe = [plugins |-> {1, 2, 4, 5, 6}, names |-> {""},
                   namespaces |-> {},
                   kwargs |-> {[a |-> 1, b |-> 1]},
                   callbacks |-> {FALSE}, blockable |-> {},
                   nbeh |-> {"none", "raise", "stopiter", "runtimeerror"},
                   wbeh |-> {"pass", "ret"},
                   keeps |-> {"call"}]

NextRaise ==
    \/ \E p \in universe.plugins, n \in universe.names : Register(p, n)
    \/ \E p \in universe.plugins : Unregister(p, "")
    \/ \E kw \in universe.kwargs : Call("h", kw)

SpecRaise == InitRaise /\ [][NextRaise]_vars

----------------------------------------------------------------------------
(* A caller made by subset_hook_caller that the host keeps and calls later *)

InitSubset ==
    /\ InitManager
    /\ universe = [plugins |-> {7, 8, 9}, names |-> {""},
                   namespaces |-> {NsHist},
                   kwargs |-> {[a |-> 1, b |-> 0], [a |-> 2, b |-> 0]},
                   callbacks |-> {TRUE}, blockable |-> {},
                   nbeh |-> {"none", "value"}, wbeh |-> {},
                   keeps |-> {"register", "subset_held_call",
                              "subset_call_historic", "call_historic"}]

NextSubset ==
    \/ \E p \in universe.plugins, n \in universe.names : Register(p, n)
    \/ \E p \in universe.plugins : Unregister(p, "")
    \/ \E ns \in universe.namespaces : AddHookspecs(ns)
    \/ \E r \in ListsOf({7, 8}) : SubsetHookCaller("hist", r)
    \/ \E kw \in universe.kwargs : SubsetCallHeld(kw)
    \/ \E cb \in universe.callbacks, kw \in universe.kwargs :
          SubsetCallHistoricHeld(cb, kw)
    \/ \E cb \in universe.callbacks, kw \in universe.kwargs :
          CallHistoric("hist", cb, kw)

SpecSubset == InitSubset /\ [][NextSubset]_vars

----------------------------------------------------------------------------
(* Historic calls whose implementations register and unregister plugins *)

InitLate ==
    /\ InitManager
    /\ universe = [plugins |-> {7, 8, 9}, names |-> {""},
                   namespaces |-> {NsHist},
                   kwargs |-> {[a |-> 1, b |-> 0], [a |-> 2, b |-> 0]},
                   callbacks |-> {TRUE}, blockable |-> {},
                   nbeh |-> {"none", "value"}, wbeh |-> {},
                   keeps |-> {"call_historic_reentrant"}]

NextLate ==
    \/ \E p \in universe.plugins, n \in universe.names : Register(p, n)
    \/ \E p \in universe.plugins : Unregister(p, "")
    \/ \E ns \in universe.namespaces : AddHookspecs(ns)
    \/ \E cb \in universe.callbacks, kw \in universe.kwargs :
          CallHistoric("hist", cb, kw)
    \/ \E cb \in universe.callbacks, kw \in universe.kwargs,
          who \in {71, 81, 91, 92}, op \in {"register", "unregister"},
          q \in universe.plugins :
          CallHistoricReentrant("hist", cb, kw, who, op, q)

SpecLate == InitLate /\ [][NextLate]_vars

----------------------------------------------------------------------------
(* Historic hooks: recorded calls and their replay on late registrations *)

InitHist ==
    /\ InitManager
    /\ universe = [plugins |-> {7, 8, 9, 11}, names |-> {""},
                   namespaces |-> {NsHist},
                   kwargs |-> {[a |-> 1, b |-> 0], [a |-> 2, b |-> 0]},
                   callbacks |-> {TRUE, FALSE}, blockable |-> {},
                   nbeh |-> {"none", "value", "raise"}, wbeh |-> {"pass"},
                   keeps |-> {"register", "add_hookspecs", "call_historic"}]

NextHist ==
    \/ \E p \in universe.plugins, n \in universe.names : Register(p, n)
    \/ \E p \in universe.plugins : Unregister(p, "")
    \/ \E ns \in universe.namespaces : AddHookspecs(ns)
    \/ \E cb \in universe.callbacks, kw \in universe.kwargs :
            CallHistoric("hist", cb, kw)

SpecHist == InitHist /\ [][NextHist]_vars

----------------------------------------------------------------------------
(* A historic hook under every operation of the manager *)

InitGrow ==
    /\ InitManager
    /\ universe = [plugins |-> {7, 8, 11}, names |-> {""},
                   namespaces |-> {NsHist},
                   kwargs |-> {[a |-> 1, b |-> 0], [a |-> 2, b |-> 0]},
                   callbacks |-> {TRUE, FALSE}, blockable |-> {"p7"},
                   nbeh |-> {"none", "raise"}, wbeh |-> {"pass"},
                   keeps |-> {"register", "unregister", "set_blocked", "unblock",
                              "add_hookspecs", "call", "call_historic"}]

NextGrow ==
    \/ \E p \in universe.plugins, n \in universe.names : Register(p, n)
    \/ \E p \in universe.plugins : Unregister(p, "")
    \/ \E n \in universe.blockable : SetBlocked(n)
    \/ \E n \in universe.blockable : Unblock(n)
    \/ \E ns \in universe.namespaces : AddHookspecs(ns)
    \/ \E cb \in universe.callbacks, kw \in universe.kwargs :
            CallHistoric("hist", cb, kw)
    \/ \E kw \in universe.kwargs : Call("hist", kw)

SpecGrow == InitGrow /\ [][NextGrow]_vars

----------------------------------------------------------------------------
(* Specifications added before and after the implementations *)

InitSpecs ==
    /\ InitManager
    /\ universe = [plugins |-> {2, 10, 11}, names |-> {""},
                   namespaces |-> {NsNormal, NsBoth, NsHist},
                   kwargs |-> {NoKwargs},
                   callbacks |-> {FALSE}, blockable |-> {},
                   nbeh |-> {"none"}, wbeh |-> {},
                   keeps |-> {"register", "unregister", "add_hookspecs",
                              "check_pending", "add_hookspecs_check_pending",
                              "unregister_check_pending"}]

NextSpecs ==
    \/ \E p \in universe.plugins, n \in universe.names : Register(p, n)
    \/ \E p \in universe.plugins : Unregister(p, "")
    \/ \E ns \in universe.namespaces : AddHookspecs(ns)
    \/ CheckPending
    \/ \E ns \in universe.namespaces : AddHookspecsCheckPending(ns)
    \/ \E p \in universe.plugins : UnregisterCheckPending(p)

SpecSpecs == InitSpecs /\ [][NextSpecs]_vars

----------------------------------------------------------------------------
(* Implementations of every priority class registered in every order *)

InitOrder ==
    /\ InitManager
    /\ universe = [plugins |-> {1, 2, 3, 4, 5, 6, 12, 15, 16, 17, 20}, names |-> {""},
                   namespaces |-> {},
                   kwargs |-> {NoKwargs},
                   callbacks |-> {FALSE}, blockable |-> {},
                   nbeh |-> {"none"}, wbeh |-> {"pass"},
                   keeps |-> {"register", "unregister"}]

NextOrder ==
    \/ \E p \in universe.plugins, n \in universe.names : Register(p, n)
    \/ \E p \in universe.plugins : Unregister(p, "")

SpecOrder == InitOrder /\ [][NextOrder]_vars

----------------------------------------------------------------------------
(* The six implementations A, B(trylast), C, D(trylast), E(tryfirst), F *)

InitChain ==
    /\ InitManager
    /\ universe = [plugins |-> {16, 17, 18, 19, 20, 21}, names |-> {""},
                   namespaces |-> {},
                   kwargs |-> {NoKwargs},
                   callbacks |-> {FALSE}, blockable |-> {},
                   nbeh |-> {"none"}, wbeh |-> {"pass"},
                   keeps |-> {"call"}]

NextChain ==
    \/ \E p \in universe.plugins : RegisterPlugin(p)
    \/ \E kw \in universe.kwargs : Call("h", kw)

SpecChain == InitChain /\ [][NextChain]_vars

----------------------------------------------------------------------------
(* The registry when every unregister names a plugin and a name that agree *)

InitAgree ==
    /\ InitManager
    /\ universe = [plugins |-> {2, 10, 13}, names |-> {"", "x"},
                   namespaces |-> {NsBoth},
                   kwargs |-> {NoKwargs},
                   callbacks |-> {FALSE}, blockable |-> {"x", "p2", "p13"},
                   nbeh |-> {"none"}, wbeh |-> {},
                   keeps |-> {"register", "unregister", "set_blocked"}]

NextAgree ==
    \/ \E p \in universe.plugins, n \in universe.names : Register(p, n)
    \/ \E p \in universe.plugins \cup {0},
          n \in universe.names \cup universe.blockable : UnregisterAgreeing(p, n)
    \/ \E n \in universe.blockable : SetBlocked(n)
    \/ \E n \in universe.blockable : Unblock(n)
    \/ \E ns \in universe.namespaces : AddHookspecs(ns)

SpecAgree == InitAgree /\ [][NextAgree]_vars

----------------------------------------------------------------------------
(* Plugins loaded from the entry points of the installed distributions *)

\* importlib.metadata.distributions(): the entry points of the installed
\* distributions in the order the two loops reach them; plugin is what
\* ep.load() returns. Two distributions have an entry point of the name "x"
\* in the group "pytest11", and the entry points "x" and "w" load the same
\* object.
EntryPoints ==
    <<[group |-> "pytest11", name |-> "x", plugin |-> 16, dist |-> 1],
      [group |-> "pytest11", name |-> "y", plugin |-> 17, dist |-> 1],
      [group |-> "pytest11", name |-> "x", plugin |-> 18, dist |-> 2],
      [group |-> "other", name |-> "z", plugin |-> 19, dist |-> 2],
      [group |-> "other", name |-> "w", plugin |-> 16, dist |-> 3]>>

\* variant: the entry points of blocked names are not passed over
SkippedUnlessBlocked(m, ep, group, name) ==
    \/ ep.group # group
    \/ name # "" /\ ep.name # name
    \/ get_plugin(m, ep.name) # 0
\* the condition of the continue statement: the entry point is passed over
Skipped(m, ep, group, name) ==
    \/ ep.group # group
    \/ name # "" /\ ep.name # name
    \/ get_plugin(m, ep.name) # 0
    \/ is_blocked(m, ep.name)

\* the body of the loop after the continue statement: register has been
\* called with the plugin of the entry point, and o is its outcome
Loaded(ep, o, acc) ==
    IF o.exc # NoExc THEN [acc EXCEPT !.m = o.m, !.exc = o.exc]
    ELSE [m |-> o.m, distinfo |-> Append(acc.distinfo, <<ep.plugin, ep.dist>>),
          count |-> acc.count + 1, exc |-> NoExc]

\* the two loops of load_setuptools_entrypoints from the entry point k on
RECURSIVE LoadFrom(_, _, _, _)
LoadFrom(k, group, name, acc) ==
    IF k > Len(EntryPoints) \/ acc.exc # NoExc THEN acc
    ELSE IF Skipped(acc.m, EntryPoints[k], group, name)
    THEN LoadFrom(k + 1, group, name, acc)
    ELSE LoadFrom(k + 1, group, name,
            Loaded(EntryPoints[k],
                   register(acc.m, EntryPoints[k].plugin, EntryPoints[k].name, <<>>),
                   acc))

\* PluginManager.load_setuptools_entrypoints(group, name); name "" stands
\* for None
load_setuptools_entrypoints(m, distinfo, group, name) ==
    LoadFrom(1, group, name,
             [m |-> m, distinfo |-> distinfo, count |-> 0, exc |-> NoExc])

\* what load_setuptools_entrypoints returned or raised
LoadOutcome(acc, counts) ==
    [Outcome(acc.m, "", 0, acc.exc, <<>>)
        EXCEPT !.ret = IF acc.exc = NoExc THEN Obj(acc.count) ELSE None,
               !.given = counts]

\* the load whose result is acc takes effect
LoadTakesEffect(op, group, name, acc, counts) ==
    /\ Within(acc)
    /\ Len(acc.distinfo) <= MaxDistinfo
    /\ name2plugin' = acc.m.name2plugin
    /\ hook' = acc.m.hook
    /\ plugin_distinfo' = acc.distinfo
    /\ last' \in Keep(Last(op, 0, name, group, NoKwargs, FALSE, Manager,
                           LoadOutcome(acc, counts)),
                      acc.m = Manager)
    /\ UNCHANGED <<universe, inner_hookexec, undos, indent, subset>>

\* manager.load_setuptools_entrypoints(group, name)
LoadSetuptoolsEntrypoints(group, name) ==
    /\ Idle
    /\ LoadTakesEffect("load_setuptools_entrypoints", group, name,
          load_setuptools_entrypoints(Manager, plugin_distinfo, group, name), <<>>)

\* the same call once more, right after the call that returned first
Repeated(group, name, first) ==
    load_setuptools_entrypoints(first.m, first.distinfo, group, name)

\* manager.load_setuptools_entrypoints(group, name) twice in a row; the
\* outcome is that of the second call, given holds what the first returned
LoadSetuptoolsEntrypointsTwice(group, name) ==
    /\ Idle
    /\ load_setuptools_entrypoints(Manager, plugin_distinfo, group, name).exc = NoExc
    /\ LoadTakesEffect("load_twice", group, name,
          Repeated(group, name,
             load_setuptools_entrypoints(Manager, plugin_distinfo, group, name)),
          <<load_setuptools_entrypoints(Manager, plugin_distinfo, group, name).count>>)

Groups == {"pytest11", "other"}

InitLoad ==
    /\ InitManager
    /\ universe = [plugins |-> {17}, names |-> {"y"},
                   namespaces |-> {}, kwargs |-> {NoKwargs},
                   callbacks |-> {FALSE}, blockable |-> {"x"},
                   nbeh |-> {"none"}, wbeh |-> {},
                   keeps |-> {"load_setuptools_entrypoints", "load_twice"}]

NextLoad ==
    \/ \E p \in universe.plugins, n \in universe.names : Register(p, n)
    \/ \E p \in {16, 17} : Unregister(p, "")
    \/ \E n \in universe.blockable : SetBlocked(n)
    \/ \E n \in universe.blockable : Unblock(n)
    \/ \E g \in Groups, n \in {"", "y"} : LoadSetuptoolsEntrypoints(g, n)
    \/ \E g \in Groups, n \in {"", "y"} : LoadSetuptoolsEntrypointsTwice(g, n)

SpecLoad == InitLoad /\ [][NextLoad]_vars

----------------------------------------------------------------------------
(* Hook calls with and without a monitor installed *)

InitTrace ==
    /\ InitManager
    /\ universe = [plugins |-> {1, 2, 4, 5}, names |-> {""},
                   namespaces |-> {NsFirst},
                   kwargs |-> {[a |-> 1, b |-> 1]},
                   callbacks |-> {FALSE}, blockable |-> {},
                   nbeh |-> {"none", "value", "raise"},
                   wbeh |-> {"setupraise", "pass", "ret", "raise"},
                   keeps |-> {"hook_call"}]

NextTrace ==
    \/ \E p \in universe.plugins, n \in universe.names : Register(p, n)
    \/ \E p \in universe.plugins : Unregister(p, "")
    \/ \E ns \in universe.namespaces : AddHookspecs(ns)
    \/ AddHookcallMonitoring(1)
    \/ Undo(1)
    \/ \E kw \in universe.kwargs : HookCall("h", kw, Behaviours(MonitorBeh, ObserverBeh))

SpecTrace == InitTrace /\ [][NextTrace]_vars

----------------------------------------------------------------------------
(* Several monitors, installed and undone in any order *)

InitUndo ==
    /\ InitManager
    /\ universe = [plugins |-> {1, 2, 4}, names |-> {""},
                   namespaces |-> {},
                   kwargs |-> {[a |-> 1, b |-> 1]},
                   callbacks |-> {FALSE}, blockable |-> {},
                   nbeh |-> {"none", "raise"}, wbeh |-> {"pass"},
                   keeps |-> {"hook_call"}]

NextUndo ==
    \/ \E p \in universe.plugins, n \in universe.names : Register(p, n)
    \/ \E p \in universe.plugins : Unregister(p, "")
    \/ \E monitor \in Monitors : AddHookcallMonitoring(monitor)
    \/ EnableTracing
    \/ \E monitor \in Monitors : Undo(monitor)
    \/ \E kw \in universe.kwargs : HookCall("h", kw, Behaviours(ObserverBeh, ObserverBeh))

SpecUndo == InitUndo /\ [][NextUndo]_vars

----------------------------------------------------------------------------
(* A historic specification added to a hook that has implementations *)

InitHandover ==
    /\ InitManager
    /\ universe = [plugins |-> {4, 16, 17, 18, 19, 20}, names |-> {""},
                   namespaces |-> {NsHistH},
                   kwargs |-> {[a |-> 1, b |-> 1]},
                   callbacks |-> {FALSE}, blockable |-> {},
                   nbeh |-> {"none", "value"}, wbeh |-> {},
                   keeps |-> {"add_hookspecs", "call_historic"}]

NextHandover ==
    \/ \E p \in universe.plugins, n \in universe.names : Register(p, n)
    \/ \E p \in universe.plugins : Unregister(p, "")
    \/ \E ns \in universe.namespaces : AddHookspecs(ns)
    \/ \E cb \in universe.callbacks, kw \in universe.kwargs :
          CallHistoric("h", cb, kw)

SpecHandover == InitHandover /\ [][NextHandover]_vars

----------------------------------------------------------------------------
(* Hook calls, one inside the other, with tracing enabled and disabled *)

InitNest ==
    /\ InitManager
    /\ universe = [plugins |-> {1, 2, 4, 11}, names |-> {""},
                   namespaces |-> {},
                   kwargs |-> {[a |-> 1, b |-> 1]},
                   callbacks |-> {FALSE}, blockable |-> {},
                   nbeh |-> {"none", "raise"},
                   wbeh |-> {"pass", "raise"},
                   keeps |-> {"hook_call", "nested_call"}]

NextNest ==
    \/ \E p \in universe.plugins, n \in universe.names : Register(p, n)
    \/ \E p \in universe.plugins : Unregister(p, "")
    \/ EnableTracing
    \/ \E monitor \in {3} : Undo(monitor)
    \/ \E kw \in universe.kwargs :
            HookCall("h", kw, Behaviours(ObserverBeh, TracerBeh))
    \/ \E kw \in universe.kwargs :
            NestedHookCall("h", "g", 21, kw, Behaviours(ObserverBeh, TracerBeh))

SpecNest == InitNest /\ [][NextNest]_vars

----------------------------------------------------------------------------
(* Historic and other callers side by side: each kind of call on each *)

InitKinds ==
    /\ InitManager
    /\ universe = [plugins |-> {7, 8, 11}, names |-> {""},
                   namespaces |-> {NsHist},
                   kwargs |-> {[a |-> 1, b |-> 0]},
                   callbacks |-> {TRUE, FALSE}, blockable |-> {},
                   nbeh |-> {"none", "value"}, wbeh |-> {"pass"},
                   keeps |-> {"call", "call_extra", "call_historic"}]

NextKinds ==
    \/ \E p \in universe.plugins, n \in universe.names : Register(p, n)
    \/ \E p \in universe.plugins : Unregister(p, "")
    \/ \E ns \in universe.namespaces : AddHookspecs(ns)
    \/ \E h \in {"hist", "g"}, cb \in universe.callbacks, kw \in universe.kwargs :
            CallHistoric(h, cb, kw)
    \/ \E h \in {"hist", "g"}, kw \in universe.kwargs : Call(h, kw)
    \/ \E h \in {"hist", "g"}, ms \in ListsOf(Methods), kw \in universe.kwargs :
            CallExtra(h, ms, kw)

SpecKinds == InitKinds /\ [][NextKinds]_vars

----------------------------------------------------------------------------
(* The registry: names, blocking and validation *)

InitReg ==
    /\ InitManager
    /\ universe = [plugins |-> {2, 10}, names |-> {"", "x"},
                   namespaces |-> {NsBoth},
                   kwargs |-> {NoKwargs},
                   callbacks |-> {FALSE}, blockable |-> {"x", "p2"},
                   nbeh |-> {"none"}, wbeh |-> {},
                   keeps |-> {"register", "unregister", "set_blocked",
                              "unblock", "add_hookspecs", "set_blocked_unblock"}]

NextReg ==
    \/ \E p \in universe.plugins, n \in universe.names : Register(p, n)
    \/ \E p \in universe.plugins \cup {0}, n \in universe.names : Unregister(p, n)
    \/ \E n \in universe.blockable : SetBlocked(n)
    \/ \E n \in universe.blockable : Unblock(n)
    \/ \E n \in universe.blockable : SetBlockedUnblock(n)
    \/ \E ns \in universe.namespaces : AddHookspecs(ns)

SpecReg == InitReg /\ [][NextReg]_vars

----------------------------------------------------------------------------
(* Plugins with several implementations of one hook *)

InitMulti ==
    /\ InitManager
    /\ universe = [plugins |-> {2, 3, 13, 14}, names |-> {"", "x"},
                   namespaces |-> {NsNormal, NsFirst},
                   kwargs |-> {[a |-> 1, b |-> 0]},
                   callbacks |-> {FALSE}, blockable |-> {},
                   nbeh |-> {"none", "value", "raise"},
                   wbeh |-> {"pass", "ret", "raise"},
                   keeps |-> {"register_unregister", "subset_call", "call_extra",
                              "call_reentrant"}]

NextMulti ==
    \/ \E p \in universe.plugins, n \in universe.names : Register(p, n)
    \/ \E p \in universe.plugins : Unregister(p, "")
    \/ \E ns \in universe.namespaces : AddHookspecs(ns)
    \/ \E p \in universe.plugins, n \in universe.names : RegisterUnregister(p, n)
    \/ \E r \in ListsOf(universe.plugins), kw \in universe.kwargs :
            SubsetCall("h", r, kw)
    \/ \E ms \in ListsOf(Methods), kw \in universe.kwargs :
            CallExtra("h", ms, kw)
    \/ \E who \in {21, 31, 131, 141, 142}, op \in {"register", "unregister"},
          q \in universe.plugins, kw \in universe.kwargs :
            CallReentrant("h", kw, who, op, q)

SpecMulti == InitMulti /\ [][NextMulti]_vars

----------------------------------------------------------------------------
(* Observations on the last operation *)

CallDone == last.op = "call"

\* the caller on which the last call was made (a call leaves it unchanged)
TheCaller == last.pre.hook[last.hook_name]

EventsOf(log, kind) == SelectSeq(log, LAMBDA e : e.ev = kind)
Setups == EventsOf(last.log, "setup")
Calls == EventsOf(last.log, "call")
Teardowns == EventsOf(last.log, "teardown")

\* the wrappers whose setup completed, in the order of their setups
Completed == SelectSeq(Setups, LAMBDA e : e.outexc = NoExc)

\* priority class of an implementation: tryfirst, unmarked, trylast
Rank(hookimpl) == IF hookimpl.tryfirst THEN 0 ELSE IF hookimpl.trylast THEN 2 ELSE 1

\* the exception that ended the setups and the normal implementations
Raised ==
    IF EventsOf(last.log, "except") = <<>> THEN NoExc
    ELSE EventsOf(last.log, "except")[1].outexc

\* the non-None values the normal implementations returned, in execution order
Values == [k \in 1..Len(SelectSeq(Calls, LAMBDA e : e.outres # None)) |->
              SelectSeq(Calls, LAMBDA e : e.outres # None)[k].outres.v]

FirstResult == has_spec(TheCaller) /\ TheCaller.spec.firstresult

\* what the normal implementations leave to the innermost wrapper
Gathered ==
    IF FirstResult THEN (IF Values = <<>> THEN None ELSE Obj(Values[1]))
    ELSE List(Values)

----------------------------------------------------------------------------
(* Claims on the hook call (SpecCall) *)

\* C1: a hook call invokes the normal implementations in exactly the reverse
\* of the caller's list order: the k-th invocation is of the k-th
\* implementation from the end of the list, all of them are invoked unless
\* the call is cut short by an exception or a first result, and, whatever
\* the order of registration, no implementation runs before one of a higher
\* priority class (tryfirst, then unmarked, then trylast).
C1_ReverseListOrder ==
    CallDone =>
      LET normal == TheCaller.normal
          n == Len(normal)
      IN  /\ Len(Calls) <= n
          /\ \A k \in 1..Len(Calls) :
                /\ Calls[k].i = n + 1 - k
                /\ Calls[k].function = normal[n + 1 - k].function
          /\ \A j, k \in 1..Len(Calls) :
                j < k => Rank(normal[Calls[j].i]) <= Rank(normal[Calls[k].i])
          /\ (Raised = NoExc /\ (FirstResult => Values = <<>>)) => Len(Calls) = n

\* C1, witnessed: the trylast plugin was registered first and the tryfirst
\* plugin last, and the call ran tryfirst, unmarked, trylast
C1_Witness ==
    /\ CallDone
    /\ Len(name2plugin) = 3
    /\ name2plugin[1].plugin = 3 /\ name2plugin[2].plugin = 2 /\ name2plugin[3].plugin = 1
    /\ [k \in 1..Len(Calls) |-> Calls[k].function] = <<11, 21, 31>>

\* C2: in every hook call every wrapper setup precedes every invocation of a
\* normal implementation, every teardown follows all of them, the setups run
\* in reverse wrapper-list order with tryfirst wrappers first, and the
\* teardowns run in exactly the reverse order of the setups, so that a
\* tryfirst wrapper is torn down after the wrappers set up after it.
C2_WrappersNest ==
    CallDone =>
      LET log == last.log
          wrappers == TheCaller.wrappers
          w == Len(wrappers)
      IN  /\ \A p, q \in 1..Len(log) :
                /\ (log[p].ev = "setup" /\ log[q].ev = "call") => p < q
                /\ (log[p].ev = "call" /\ log[q].ev = "teardown") => p < q
                /\ (log[p].ev = "setup" /\ log[q].ev = "teardown") => p < q
          /\ \A k \in 1..Len(Setups) : Setups[k].i = w + 1 - k
          /\ \A j, k \in 1..Len(Setups) :
                j < k => Rank(wrappers[Setups[j].i]) <= Rank(wrappers[Setups[k].i])
          /\ Len(Teardowns) <= Len(Completed)
          /\ \A k \in 1..Len(Teardowns) :
                Teardowns[k].i = Completed[Len(Completed) + 1 - k].i
          /\ \A j, k \in 1..Len(Teardowns) :
                j < k => Rank(wrappers[Teardowns[j].i]) >= Rank(wrappers[Teardowns[k].i])

\* C2, witnessed: the tryfirst wrapper 41 and the old-style wrapper 51 around
\* a normal implementation; 41 is set up first and torn down last
C2_Witness ==
    /\ CallDone
    /\ Len(Calls) = 1
    /\ [k \in 1..Len(Setups) |-> Setups[k].function] = <<41, 51>>
    /\ [k \in 1..Len(Teardowns) |-> Teardowns[k].function] = <<51, 41>>

\* C3: in every hook call the teardown of every wrapper whose setup completed
\* is run exactly once, whatever was raised earlier in the call.
C3_EveryTeardownRuns ==
    CallDone =>
      \A k \in 1..Len(Completed) :
         Cardinality({q \in 1..Len(Teardowns) : Teardowns[q].i = Completed[k].i}) = 1

\* C4: if argument extraction, a wrapper setup or a normal implementation
\* raises, the failing step is the last setup or invocation of the call,
\* exactly the wrappers whose setup had completed are torn down, and the
\* exception is thrown into the innermost of them.
C4_FailureUnwinds ==
    (CallDone /\ Raised # NoExc) =>
      LET log == last.log
      IN  /\ \A p \in 1..Len(log) :
                (log[p].ev \in {"setup", "call"} /\ log[p].outexc # NoExc) =>
                    /\ p < Len(log)
                    /\ log[p + 1].ev = "except"
                    /\ log[p + 1].outexc = log[p].outexc
          /\ \A p, q \in 1..Len(log) :
                (log[p].ev = "except" /\ p < q) => log[q].ev = "teardown"
          /\ {Teardowns[k].i : k \in 1..Len(Teardowns)} =
                {Completed[k].i : k \in 1..Len(Completed)}
          /\ Len(Teardowns) = Len(Completed)
          /\ Completed # <<>> =>
                /\ Teardowns[1].i = Completed[Len(Completed)].i
                /\ Teardowns[1].inexc = Raised

\* C5: each teardown receives the result or exception exactly as left by the
\* next-inner wrapper (by the normal implementations for the innermost one);
\* what a new-style wrapper returns replaces the result and clears the
\* exception, what it raises replaces the exception; the call returns or
\* raises exactly what the outermost wrapper leaves.
C5_OutcomeFlowsOutward ==
    CallDone =>
      LET T == Teardowns
          wrappers == TheCaller.wrappers
      IN  /\ T # <<>> =>
                /\ T[1].inexc = Raised
                /\ Raised = NoExc => T[1].inres = Gathered
          /\ \A k \in 2..Len(T) :
                /\ T[k].inexc = T[k - 1].outexc
                /\ T[k].inres = T[k - 1].outres
          /\ \A k \in 1..Len(T) :
                wrappers[T[k].i].kind = "wrapper" =>
                    /\ T[k].beh = "ret" =>
                          T[k].outres = WrapRetOf(wrappers[T[k].i]) /\ T[k].outexc = NoExc
                    /\ T[k].beh = "raise" =>
                          T[k].outexc = UserError(wrappers[T[k].i])
          /\ Completed # <<>> =>
                /\ T # <<>>
                /\ T[Len(T)].i = Completed[1].i
                /\ last.exc = T[Len(T)].outexc
                /\ last.exc = NoExc => last.ret = T[Len(T)].outres
          /\ Completed = <<>> =>
                /\ last.exc = Raised
                /\ Raised = NoExc => last.ret = Gathered

\* C6: in a call of a firstresult hook no normal implementation is invoked
\* after the first one that returns a non-None value, and without wrappers
\* the call returns that value, or None when no implementation returned one.
C6_FirstResultHalts ==
    (CallDone /\ FirstResult) =>
      /\ \A k \in 1..Len(Calls) : Calls[k].outres # None => k = Len(Calls)
      /\ (TheCaller.wrappers = <<>> /\ last.exc = NoExc) =>
            last.ret = (IF Calls # <<>> /\ Calls[Len(Calls)].outres # None
                        THEN Calls[Len(Calls)].outres
                        ELSE None)

\* C6, witnessed: the first implementation returned None, the second a value,
\* and a third one was left out
C6_Witness ==
    /\ CallDone /\ FirstResult
    /\ TheCaller.wrappers = <<>>
    /\ Len(TheCaller.normal) = 3
    /\ Len(Calls) = 2
    /\ Calls[1].outres = None
    /\ last.ret = Calls[2].outres
    /\ last.ret # None

\* C7: a call of a non-firstresult hook without wrappers returns the list of
\* the non-None values of the normal implementations in execution order, one
\* entry per implementation that returned non-None, and the empty list when
\* there is no implementation.
C7_ResultList ==
    (CallDone /\ ~FirstResult /\ TheCaller.wrappers = <<>> /\ last.exc = NoExc) =>
      /\ last.ret = List(Values)
      /\ Len(last.ret.items) =
            Cardinality({k \in 1..Len(Calls) : Calls[k].outres # None})
      /\ Len(Calls) = Len(TheCaller.normal)
      /\ TheCaller.normal = <<>> => last.ret = List(<<>>)

\* C7, witnessed: three implementations of which the first returned None
C7_Witness ==
    /\ CallDone /\ ~FirstResult
    /\ TheCaller.wrappers = <<>>
    /\ Len(Calls) = 3
    /\ Calls[1].outres = None
    /\ last.ret = List(<<Calls[2].outres.v, Calls[3].outres.v>>)
    /\ Calls[2].outres # None /\ Calls[3].outres # None

\* the call was ended by a HookCallError of the call loop
ArgumentMissing == CallDone /\ Raised.type = "HookCallError"

\* the implementation at which the call loop stopped: the next wrapper if not
\* all were set up, else the next normal implementation
Stopped ==
    IF Len(Setups) < Len(TheCaller.wrappers)
    THEN TheCaller.wrappers[Len(TheCaller.wrappers) - Len(Setups)]
    ELSE TheCaller.normal[Len(TheCaller.normal) - Len(Calls)]

\* the implementations the list holds that lack an argument in the kwargs
Lacking(impls, kwargs) ==
    {i \in 1..Len(impls) : FirstMissing(impls[i].argnames, kwargs, 1) # ""}

\* C17: a call whose kwargs lack an argument of an implementation in the
\* chain raises HookCallError at that implementation: every function run
\* before it had all its arguments, the function itself is not run, nothing
\* is set up or invoked after it, the error names the first argument of the
\* implementation that the call does not provide, and the error is thrown
\* into the innermost wrapper that was set up (it leaves the call if there is
\* none). A call that runs the whole chain lacks no argument.
C17_MissingArgument ==
    /\ CallDone =>
          \A p \in 1..Len(last.log) :
             last.log[p].ev \in {"setup", "call"} =>
                Len(last.log[p].args) =
                    Len((IF last.log[p].ev = "setup" THEN TheCaller.wrappers
                         ELSE TheCaller.normal)[last.log[p].i].argnames)
    /\ ArgumentMissing =>
          /\ Len(Setups) < Len(TheCaller.wrappers) => Calls = <<>>
          /\ Raised = HookCallError(FirstMissing(Stopped.argnames, last.kwargs, 1))
          /\ Raised.arg \in Range(Stopped.argnames)
          /\ ~Provided(last.kwargs, Raised.arg)
          /\ \A p \in 1..Len(last.log) : last.log[p].function # Stopped.function
          /\ \A k \in 1..Len(Setups) :
                /\ Setups[k].outexc = NoExc
                /\ Setups[k].i \notin Lacking(TheCaller.wrappers, last.kwargs)
          /\ \A k \in 1..Len(Calls) :
                /\ Calls[k].outexc = NoExc
                /\ Calls[k].i \notin Lacking(TheCaller.normal, last.kwargs)
          /\ IF Completed = <<>> THEN last.exc = Raised /\ Teardowns = <<>>
             ELSE /\ Teardowns # <<>>
                  /\ Teardowns[1].i = Completed[Len(Completed)].i
                  /\ Teardowns[1].inexc = Raised
    /\ (CallDone /\ Raised = NoExc) =>
          /\ Lacking(TheCaller.wrappers, last.kwargs) = {}
          /\ (FirstResult => Values = <<>>) =>
                Lacking(TheCaller.normal, last.kwargs) = {}

\* C17, witnessed: a wrapper is set up and a normal implementation has run
\* when the next implementation lacks the argument b; the error reaches the
\* teardown of the wrapper
C17_Witness ==
    /\ ArgumentMissing
    /\ Raised = HookCallError("b")
    /\ Len(Calls) = 1
    /\ Len(TheCaller.normal) = 2
    /\ Len(Teardowns) = 1
    /\ Teardowns[1].inexc = HookCallError("b")

\* C17, witnessed for a wrapper that lacks an argument after another wrapper
\* was set up
C17_WitnessWrapper ==
    /\ ArgumentMissing
    /\ Len(Setups) = 1
    /\ Len(TheCaller.wrappers) = 2
    /\ TheCaller.normal # <<>>
    /\ Calls = <<>>
    /\ Len(Teardowns) = 1

\* the teardowns of the old-style hookwrappers of the last call
OldStyleTeardowns ==
    SelectSeq(Teardowns, LAMBDA e : TheCaller.wrappers[e.i].kind = "hookwrapper")

\* C19: the teardown of an old-style hookwrapper that calls
\* force_result(v) leaves the value v and no exception; one that leaves the
\* Result untouched leaves the result and the exception it was resumed with;
\* one that raises leaves its exception as the current exception; and what
\* the last teardown leaves is what the call returns or raises.
C19_OldStyleResult ==
    CallDone =>
      /\ \A k \in 1..Len(OldStyleTeardowns) :
            LET e == OldStyleTeardowns[k]
            IN  /\ e.beh = "ret" =>
                      e.outres = WrapRetOf([function |-> e.function]) /\ e.outexc = NoExc
                /\ e.beh = "pass" => e.outres = e.inres /\ e.outexc = e.inexc
                /\ e.beh = "raise" => e.outexc = UserError([function |-> e.function])
      /\ (OldStyleTeardowns # <<>>
            /\ OldStyleTeardowns[Len(OldStyleTeardowns)] = Teardowns[Len(Teardowns)]) =>
            /\ last.exc = Teardowns[Len(Teardowns)].outexc
            /\ last.exc = NoExc => last.ret = Teardowns[Len(Teardowns)].outres

\* C19, witnessed: an old-style hookwrapper was resumed with an exception
\* and forced a result, and the call returned that result
C19_Witness ==
    /\ CallDone
    /\ \E k \in 1..Len(OldStyleTeardowns) :
          /\ OldStyleTeardowns[k].beh = "ret"
          /\ OldStyleTeardowns[k].inexc # NoExc
          /\ last.exc = NoExc
          /\ last.ret = OldStyleTeardowns[k].outres

\* C19, witnessed: an old-style hookwrapper left a StopIteration untouched
\* and the call raised it
C19_WitnessUntouched ==
    /\ CallDone
    /\ \E k \in 1..Len(OldStyleTeardowns) :
          /\ OldStyleTeardowns[k].beh = "pass"
          /\ OldStyleTeardowns[k].inexc.type = "StopIteration"
          /\ last.exc = OldStyleTeardowns[k].inexc

\* C19, witnessed: the teardown of an old-style hookwrapper raised after
\* the implementations had returned, and the call raised its exception
C19_WitnessRaised ==
    /\ CallDone
    /\ \E k \in 1..Len(OldStyleTeardowns) :
          /\ OldStyleTeardowns[k].beh = "raise"
          /\ OldStyleTeardowns[k].inexc = NoExc
          /\ last.exc = UserError([function |-> OldStyleTeardowns[k].function])

----------------------------------------------------------------------------
(* Claims on historic hooks (SpecHist) *)

RegisterDone == last.op = "register"

\* the functions of the plugin of the last operation
FunctionsOf(plugin) == {PluginAttrs(plugin)[k].function : k \in 1..Len(PluginAttrs(plugin))}

\* the name register uses for the plugin of the last operation
LastPluginName == IF last.name # "" THEN last.name ELSE get_canonical_name(last.plugin)

\* C8: when register returns, every implementation it added to a historic
\* hook with K recorded calls has been invoked exactly K times, once per
\* recorded call with that call's kwargs, in recording order, and no
\* implementation of another plugin has been invoked.
C8_HistoryReplayed ==
    (RegisterDone /\ last.exc = NoExc /\ last.retname # "") =>
      /\ \A k \in 1..Len(PluginAttrs(last.plugin)) :
            LET attr == PluginAttrs(last.plugin)[k]
                hc == last.pre.hook[attr.hook]
                mine == SelectSeq(last.log,
                            LAMBDA e : e.ev = "call" /\ e.function = attr.function)
            IN  is_historic(hc) =>
                  /\ Len(mine) = Len(hc.history)
                  /\ \A j \in 1..Len(mine) :
                        /\ mine[j].i = j
                        /\ mine[j].args = CallArgs(attr.argnames, hc.history[j].kwargs)
      /\ \A p \in 1..Len(last.log) :
            last.log[p].ev = "call" => last.log[p].function \in FunctionsOf(last.plugin)

\* C8, witnessed: two calls with different kwargs are recorded, another
\* plugin is already registered, and plugin 7 is registered
C8_Witness ==
    /\ RegisterDone /\ last.exc = NoExc /\ last.retname = "p7"
    /\ Len(last.pre.hook["hist"].history) = 2
    /\ last.pre.hook["hist"].history[1].kwargs # last.pre.hook["hist"].history[2].kwargs
    /\ last.pre.hook["hist"].normal # <<>>
    /\ Len(Calls) = 2
    /\ Calls[1].args # Calls[2].args

\* the last operation was call_historic on a historic caller
HistoricDone == last.op = "call_historic" /\ is_historic(TheCaller)

\* the callbacks made by the last operation, in order
CallbackEvents == EventsOf(last.log, "callback")

\* the event at position p of the trace of a registration is the invocation,
\* in the replay of a recorded call that has a callback, of an
\* implementation that returned a result
ReplayResult(p) ==
    /\ last.log[p].ev = "call"
    /\ last.log[p].outres # None
    /\ last.pre.hook["hist"].history[last.log[p].i].callback

\* C20: call_historic that returns makes one callback for each result that
\* is not None, in the order in which the implementations returned them, after
\* the last implementation has run, and none for an implementation that
\* returned None; it makes no callback when no callback was given or when an
\* implementation raised. When a recorded call is replayed on a newly
\* registered implementation, a result that is not None is followed at once
\* by one callback with that result, provided the recorded call has a
\* callback, and no other callback is made.
C20_CallbackPerResult ==
    /\ HistoricDone =>
          /\ (last.exc = NoExc /\ last.callback) =>
                /\ Len(CallbackEvents) = Len(Values)
                /\ \A j \in 1..Len(Values) : CallbackEvents[j].inres = Obj(Values[j])
                /\ \A p \in 1..Len(last.log) :
                      last.log[p].ev = "callback" => p > Len(Calls)
          /\ (last.exc # NoExc \/ ~last.callback) => CallbackEvents = <<>>
    /\ RegisterDone =>
          \A p \in 1..Len(last.log) :
             /\ ReplayResult(p) =>
                   /\ p < Len(last.log)
                   /\ last.log[p + 1].ev = "callback"
                   /\ last.log[p + 1].inres = last.log[p].outres
                   /\ last.log[p + 1].i = last.log[p].i
             /\ last.log[p].ev = "callback" => p > 1 /\ ReplayResult(p - 1)

\* C20, witnessed: call_historic with a callback on a caller with two
\* implementations of which one returned None and the other a value
C20_Witness ==
    /\ HistoricDone /\ last.callback /\ last.exc = NoExc
    /\ Len(Calls) = 2
    /\ Len(CallbackEvents) = 1

\* C20, witnessed: a registration replayed two recorded calls, one with and
\* one without a callback, on an implementation that returned a value both
\* times
C20_WitnessReplay ==
    /\ RegisterDone /\ last.exc = NoExc
    /\ Len(Calls) = 2
    /\ Calls[1].outres # None /\ Calls[2].outres # None
    /\ Len(CallbackEvents) = 1

\* C20, witnessed: a registration replayed a recorded call that has a
\* callback on an implementation that returned None
C20_WitnessNone ==
    /\ RegisterDone /\ last.exc = NoExc
    /\ \E k \in 1..Len(Calls) :
          /\ Calls[k].outres = None
          /\ last.pre.hook["hist"].history[Calls[k].i].callback
    /\ CallbackEvents = <<>>

\* the step is call_historic, with a record kept, on the historic caller of h
RecordsOn(h) ==
    /\ last'.op = "call_historic"
    /\ last'.hook_name = h
    /\ is_historic(hook[h])

\* what a step does to the call history of the caller of h
HistoryStep(h) ==
    /\ \/ hook'[h].history = hook[h].history
       \/ /\ Len(hook'[h].history) = Len(hook[h].history) + 1
          /\ SubSeq(hook'[h].history, 1, Len(hook[h].history)) = hook[h].history
    /\ RecordsOn(h) =>
          hook'[h].history = Append(hook[h].history,
                                    [kwargs |-> last'.kwargs, callback |-> last'.callback])
    /\ (last'.op # "" /\ ~RecordsOn(h)) => hook'[h].history = hook[h].history

\* C21: every step of the manager leaves the call history of every caller
\* as it was or with one entry more at its end; call_historic on a historic
\* caller appends exactly the pair of its kwargs and its callback, whether
\* the call returns or raises; register (with its replay), unregister,
\* set_blocked, unblock, add_hookspecs and a direct call leave every history
\* as it was.
C21_HistoryOnlyGrows == [][\A h \in HookNames : HistoryStep(h)]_vars

\* C21, witnessed: set_blocked removed the implementation of a plugin from
\* a historic caller that has two recorded calls, which it still has
C21_Witness ==
    /\ last.op = "set_blocked"
    /\ Len(last.pre.hook["hist"].history) = 2
    /\ Len(hook["hist"].normal) < Len(last.pre.hook["hist"].normal)
    /\ hook["hist"].history = last.pre.hook["hist"].history

\* C21, witnessed: call_historic raised and its entry is the second of the
\* history
C21_WitnessFailing ==
    /\ HistoricDone
    /\ last.exc # NoExc
    /\ Len(hook["hist"].history) = 2
    /\ hook["hist"].history[2] = [kwargs |-> last.kwargs, callback |-> last.callback]

\* C21, witnessed: the replay of a registration raised on a caller with
\* two recorded calls
C21_WitnessReplay ==
    /\ RegisterDone
    /\ last.exc # NoExc
    /\ Calls # <<>>
    /\ Len(hook["hist"].history) = 2

\* the last operation was add_hookspecs
AddHookspecsDone == last.op = "add_hookspecs"

\* the caller holds a wrapper, in either list
HoldsWrapper(hc) ==
    \E i \in 1..Len(get_hookimpls(hc)) : IsWrapper(get_hookimpls(hc)[i])

\* the plugin has a wrapper of a hook whose caller is historic
WrapsHistoric(m, plugin) ==
    \E k \in 1..Len(PluginAttrs(plugin)) :
       /\ IsWrapper(PluginAttrs(plugin)[k])
       /\ is_historic(m.hook[PluginAttrs(plugin)[k].hook])

\* the name checks of register let the plugin through
Admitted(m, plugin, plugin_name) ==
    /\ ~DictHas(m.name2plugin, plugin_name)
    /\ plugin \notin DictValues(m.name2plugin)

\* C15: no caller that has a historic specification holds a wrapper, after
\* any sequence of add_hookspecs and register calls, failed ones included;
\* register of a plugin with a wrapper of a historic hook raises
\* PluginValidationError; and add_hookspecs of a historic specification for a
\* hook that holds a wrapper raises PluginValidationError and leaves the
\* caller as it was.
C15_NoWrapperOnHistoric ==
    /\ \A h \in HookNames :
          (is_historic(hook[h]) \/ hook[h].spec.historic) => ~HoldsWrapper(hook[h])
    /\ (RegisterDone /\ WrapsHistoric(last.pre, last.plugin)
            /\ Admitted(last.pre, last.plugin, LastPluginName)) =>
          last.exc.type = "PluginValidationError"
    /\ (AddHookspecsDone /\ HoldsWrapper(TheCaller)) =>
          /\ last.exc.type = "PluginValidationError"
          /\ hook[last.hook_name] = TheCaller

\* C15, witnessed: a historic specification is added for a hook that holds a
\* normal implementation and a wrapper; the call fails and the caller stays
C15_Witness ==
    /\ AddHookspecsDone
    /\ HoldsWrapper(TheCaller)
    /\ TheCaller.normal # <<>>
    /\ last.exc.type = "PluginValidationError"
    /\ ~is_historic(hook[last.hook_name])

\* C15, witnessed for register: a plugin with a wrapper of the historic hook
C15_WitnessRegister ==
    /\ RegisterDone
    /\ WrapsHistoric(last.pre, last.plugin)
    /\ last.exc.type = "PluginValidationError"
    /\ last.pre.hook["hist"].normal # <<>>

\* the last operation is one that the class of the caller does not support
DirectOnHistoric == last.op = "call" /\ is_historic(TheCaller)
ExtraOnHistoric == last.op = "call_extra" /\ is_historic(TheCaller)
HistoricOnNormal ==
    /\ last.op = "call_historic"
    /\ TheCaller.cls = "NormalHookCaller"

\* C16: a direct call of a historic caller and call_extra on a historic
\* caller raise RuntimeError, call_historic on a caller that is not historic
\* raises AssertionError; none of them invokes an implementation or a
\* callback, and none changes a call history or anything else of the manager.
C16_WrongKindOfCall ==
    /\ (DirectOnHistoric \/ ExtraOnHistoric) => last.exc.type = "RuntimeError"
    /\ HistoricOnNormal => last.exc.type = "AssertionError"
    /\ (DirectOnHistoric \/ ExtraOnHistoric \/ HistoricOnNormal) =>
          /\ last.log = <<>>
          /\ \A h \in HookNames : hook[h].history = last.pre.hook[h].history
          /\ Manager = last.pre

\* C16, witnessed: a direct call of a historic caller that holds an
\* implementation and has a recorded call
C16_Witness ==
    /\ DirectOnHistoric
    /\ TheCaller.normal # <<>>
    /\ TheCaller.history # <<>>
    /\ last.exc.type = "RuntimeError"

\* C16, witnessed for call_extra with a method on a historic caller
C16_WitnessExtra ==
    /\ ExtraOnHistoric
    /\ last.given # <<>>
    /\ TheCaller.normal # <<>>

\* C16, witnessed for call_historic on a caller without specification that
\* holds an implementation, while the historic caller has a recorded call
C16_WitnessHistoric ==
    /\ HistoricOnNormal
    /\ TheCaller.normal # <<>>
    /\ last.pre.hook["hist"].history # <<>>

----------------------------------------------------------------------------
(* Claims on the registry (SpecReg) *)

\* C9: a register call that fails with PluginValidationError leaves the
\* manager as it was: get_plugin of the name and get_plugins are unchanged
\* and no caller holds an implementation of the plugin that it did not hold.
C9_FailedRegisterLeavesNoTrace ==
    (RegisterDone /\ last.exc.type = "PluginValidationError") =>
      /\ get_plugin(Manager, LastPluginName) = get_plugin(last.pre, LastPluginName)
      /\ get_plugins(Manager) = get_plugins(last.pre)
      /\ \A h \in HookNames :
            CountOf(get_hookimpls(hook[h]), last.plugin) =
                CountOf(get_hookimpls(last.pre.hook[h]), last.plugin)

\* no name occurs twice in _name2plugin and no plugin is the value of two names
NamesUnique ==
    \A i, j \in 1..Len(name2plugin) :
       i # j => /\ name2plugin[i].name # name2plugin[j].name
                /\ (name2plugin[i].plugin # 0 =>
                        name2plugin[i].plugin # name2plugin[j].plugin)

\* the last register would put a second plugin under a registered name
SecondUnderName ==
    /\ RegisterDone
    /\ has_plugin(last.pre, LastPluginName)
    /\ get_plugin(last.pre, LastPluginName) # last.plugin

\* the last register would put a registered plugin under a different name
RegisteredUnderOtherName ==
    /\ RegisterDone
    /\ last.plugin \in get_plugins(last.pre)
    /\ get_name(last.pre, last.plugin) # LastPluginName

RaisedValueError == last.exc.type = "ValueError" /\ Manager = last.pre
ReturnedNone == last.exc = NoExc /\ last.retname = "" /\ Manager = last.pre

\* C10 as stated: names are unique, and a register call that would put a
\* second plugin under a registered name, or a registered plugin under a
\* different name, raises ValueError and changes nothing.
C10_AsStated ==
    /\ NamesUnique
    /\ (SecondUnderName \/ RegisteredUnderOtherName) => RaisedValueError

\* C10: names are unique, and a register call that would put a second plugin
\* under a registered name, or a registered plugin under a different name,
\* changes nothing; it raises ValueError, unless the name is blocked, in
\* which case it returns None.
C10_NamesUnique ==
    /\ NamesUnique
    /\ (SecondUnderName \/ RegisteredUnderOtherName) =>
          IF is_blocked(last.pre, LastPluginName) THEN ReturnedNone
          ELSE RaisedValueError

\* C10, witnessed: a registered plugin is registered again under a blocked
\* name while another plugin is registered too
C10_Witness ==
    /\ RegisteredUnderOtherName
    /\ is_blocked(last.pre, LastPluginName)
    /\ ReturnedNone
    /\ Cardinality(get_plugins(Manager)) = 2

\* the implementations of the plugin held by the callers of the manager
HeldBy(m, plugin) ==
    {<<h, i>> \in HookNames \X (1..(2 * (MaxImpls + 1))) :
        /\ i <= Len(get_hookimpls(m.hook[h]))
        /\ get_hookimpls(m.hook[h])[i].plugin = plugin}

\* the last operation was set_blocked of a name under which a plugin was
\* registered
BlockedRegistered ==
    /\ last.op = "set_blocked"
    /\ has_plugin(last.pre, last.name)

\* C11: a blocked name stays blocked, and so without a plugin, until it is
\* unblocked. set_blocked(n) leaves n blocked and the plugin that was
\* registered as n unregistered, with none of its implementations in any
\* caller; register under a blocked name returns None and changes nothing;
\* unregister(name=n) of a blocked name changes nothing; and no operation
\* other than unblock(n), alone or right after set_blocked(n), ends the
\* blocking of n.
C11_BlockedUntilUnblocked ==
    /\ last.op = "set_blocked" =>
          /\ is_blocked(Manager, last.name)
          /\ last.exc = NoExc
          /\ BlockedRegistered =>
                /\ get_plugin(last.pre, last.name) \notin get_plugins(Manager)
                /\ HeldBy(Manager, get_plugin(last.pre, last.name)) = {}
    /\ (RegisterDone /\ is_blocked(last.pre, LastPluginName)) => ReturnedNone
    /\ (last.op = "unregister" /\ last.plugin = 0 /\ is_blocked(last.pre, last.name)) =>
          /\ last.exc = NoExc
          /\ last.retplugin = 0
          /\ Manager = last.pre
    /\ \A i \in 1..Len(last.pre.name2plugin) :
          LET n == last.pre.name2plugin[i].name
          IN  (is_blocked(last.pre, n)
                 /\ ~(last.op \in {"unblock", "set_blocked_unblock"} /\ last.name = n)) =>
                  /\ is_blocked(Manager, n)
                  /\ ~has_plugin(Manager, n)

\* C11, witnessed: set_blocked of the name of a registered plugin that has an
\* implementation in a caller, while another plugin is registered too
C11_Witness ==
    /\ BlockedRegistered
    /\ HeldBy(last.pre, get_plugin(last.pre, last.name)) # {}
    /\ Cardinality(get_plugins(last.pre)) = 2
    /\ Cardinality(get_plugins(Manager)) = 1
    /\ is_blocked(Manager, last.name)

----------------------------------------------------------------------------
(* Claims on plugins with several implementations (SpecMulti) *)

\* the last operation was register(p) followed by unregister(p)
RegisterUnregisterDone == last.op = "register_unregister"

\* the hooks the plugin has an implementation of
HooksOf(plugin) == {PluginAttrs(plugin)[k].hook : k \in 1..Len(PluginAttrs(plugin))}

\* C12: register(p) followed by unregister(p) restores get_plugins() and,
\* for every caller that existed before, both implementation lists in content
\* and order, also when p has several implementations, normal or wrapper, of
\* the same hook; a caller the registration created stays in the relay and
\* holds no implementation.
C12_RegisterUnregisterRestores ==
    RegisterUnregisterDone =>
      /\ last.exc = NoExc
      /\ last.retplugin = last.plugin
      /\ get_plugins(Manager) = get_plugins(last.pre)
      /\ name2plugin = last.pre.name2plugin
      /\ \A h \in HookNames :
            IF last.pre.hook[h].cls # ""
            THEN /\ hook[h].normal = last.pre.hook[h].normal
                 /\ hook[h].wrappers = last.pre.hook[h].wrappers
                 /\ hook[h] = last.pre.hook[h]
            ELSE IF h \in HooksOf(last.plugin)
            THEN /\ hook[h].cls = "NormalHookCaller"
                 /\ get_hookimpls(hook[h]) = <<>>
            ELSE hook[h] = NoCaller

\* C12, witnessed: plugin 13, which has a normal implementation and a wrapper
\* of h, is registered and unregistered while h holds an implementation of
\* another plugin
C12_Witness ==
    /\ RegisterUnregisterDone
    /\ last.plugin = 13
    /\ get_hookimpls(last.pre.hook["h"]) # <<>>
    /\ hook["h"] = last.pre.hook["h"]

\* C12, witnessed for a caller that the registration created
C12_WitnessCreated ==
    /\ RegisterUnregisterDone
    /\ last.plugin = 14
    /\ last.pre.hook["h"].cls = ""
    /\ hook["h"].cls = "NormalHookCaller"

\* the last operation was a call through subset_hook_caller
SubsetDone == last.op = "subset_call"

\* the plugin a function is an attribute of
OwnerOf(function) ==
    IF \E p \in 1..21 : function \in FunctionsOf(p)
    THEN CHOOSE p \in 1..21 : function \in FunctionsOf(p)
    ELSE 0

\* the implementations of a list that do not belong to the given plugins
Without(impls, plugins) == SelectSeq(impls, LAMBDA impl : impl.plugin \notin plugins)

\* C13: a call through subset_hook_caller(name, remove_plugins) invokes no
\* implementation, normal or wrapper, of a plugin in remove_plugins, whatever
\* the name of the attribute that holds it; it invokes the other
\* implementations of the hook in the usual order (wrappers and normal
\* implementations in reverse list order, all of them unless the call is cut
\* short); and it leaves the manager and the caller's lists unchanged.
C13_SubsetExcludesRemoved ==
    SubsetDone =>
      LET removed == Range(last.given)
          normal == Without(TheCaller.normal, removed)
          wrappers == Without(TheCaller.wrappers, removed)
      IN  /\ \A p \in 1..Len(last.log) :
                last.log[p].ev \in {"setup", "call", "teardown"} =>
                    OwnerOf(last.log[p].function) \notin removed
          /\ Len(Calls) <= Len(normal)
          /\ \A k \in 1..Len(Calls) :
                Calls[k].function = normal[Len(normal) + 1 - k].function
          /\ Len(Setups) <= Len(wrappers)
          /\ \A k \in 1..Len(Setups) :
                Setups[k].function = wrappers[Len(wrappers) + 1 - k].function
          /\ Raised = NoExc => Len(Setups) = Len(wrappers)
          /\ (Raised = NoExc /\ (FirstResult => Values = <<>>)) =>
                Len(Calls) = Len(normal)
          /\ Manager = last.pre

\* the last operation was call_extra
CallExtraDone == last.op = "call_extra"

\* C14: call_extra leaves the caller's two lists, and the manager, exactly as
\* they were before the call, whether the call returns or raises; no method
\* is held by a caller afterwards; and in a call that is not cut short every
\* method is invoked exactly once.
C14_CallExtraLeavesLists ==
    CallExtraDone =>
      /\ hook[last.hook_name].normal = TheCaller.normal
      /\ hook[last.hook_name].wrappers = TheCaller.wrappers
      /\ Manager = last.pre
      /\ \A h \in HookNames : \A i \in 1..Len(get_hookimpls(hook[h])) :
            get_hookimpls(hook[h])[i].function \notin Methods
      /\ (~is_historic(TheCaller) /\ Raised = NoExc /\ (FirstResult => Values = <<>>)) =>
            \A j \in 1..Len(last.given) :
               Cardinality({k \in 1..Len(Calls) : Calls[k].function = last.given[j]}) = 1

\* C14, witnessed: call_extra with two methods on a caller that holds a
\* normal implementation and a wrapper; both methods ran and the call raised
C14_Witness ==
    /\ CallExtraDone
    /\ Len(last.given) = 2
    /\ TheCaller.normal # <<>> /\ TheCaller.wrappers # <<>>
    /\ \A j \in 1..2 : \E k \in 1..Len(Calls) : Calls[k].function = last.given[j]
    /\ last.exc # NoExc
    /\ hook[last.hook_name] = TheCaller

ReentrantDone == last.op = "call_reentrant"

\* the invocation in which the function registered or unregistered a plugin
Reentries == {k \in 1..Len(Calls) : Calls[k].beh = last.name}

\* no setup and no implementation raised
Uncut == Raised = NoExc

\* C18: when an implementation registers or unregisters a plugin during a
\* hook call, the call invokes the normal implementations the caller held
\* when the call started, in the reverse of that list's order: the k-th
\* invocation is of the k-th implementation from the end of that list, and
\* all of them are invoked unless a setup or an implementation raised. The
\* manager the call leaves is the one the registration or unregistration
\* leads to from the manager the call started with, so that calls started
\* later see the change.
C18_CallSeesListAtStart ==
    ReentrantDone =>
      /\ Len(Calls) <= Len(TheCaller.normal)
      /\ \A k \in 1..Len(Calls) :
            Calls[k].function =
                TheCaller.normal[Len(TheCaller.normal) + 1 - k].function
      /\ Uncut => Len(Calls) = Len(TheCaller.normal)
      /\ Reentries # {} => Manager = Reenter(last.pre, last.name, last.plugin, <<>>).m
      /\ Reentries = {} => Manager = last.pre

\* C18, witnessed by a registration: the function registered a plugin whose
\* implementation went into the caller's list in front of implementations
\* the call had still to invoke, and the call went on to invoke them
C18_Witness ==
    /\ ReentrantDone
    /\ last.name = "register"
    /\ Uncut
    /\ \E k \in Reentries : k < Len(Calls)
    /\ Len(hook[last.hook_name].normal) > Len(TheCaller.normal)
    /\ hook[last.hook_name].normal[1].plugin = last.plugin

\* C18, witnessed by an unregistration: the function unregistered a plugin
\* whose implementation the call invoked afterwards, and the caller no
\* longer holds it
C18_WitnessUnregister ==
    /\ ReentrantDone
    /\ last.name = "unregister"
    /\ Uncut
    /\ \E k \in Reentries : \E j \in (k + 1)..Len(Calls) :
          OwnerOf(Calls[j].function) = last.plugin
    /\ \A i \in 1..Len(hook[last.hook_name].normal) :
          hook[last.hook_name].normal[i].plugin # last.plugin

----------------------------------------------------------------------------
(* Claims on specifications and pending implementations (SpecSpecs) *)

\* add_hookspecs was rejected because a name of the namespace has a
\* specification already
Rejected ==
    /\ AddHookspecsDone
    /\ last.exc.type = "ValueError"
    /\ last.exc.msg = "already has a specification"

\* C22: an add_hookspecs that is rejected because a hook name of the
\* namespace already has a specification leaves the manager as it was: every
\* caller, its class, its specification and its lists.
C22_RejectedAddHookspecsLeavesManager ==
    Rejected => Manager = last.pre

\* every implementation the caller holds takes only arguments that the
\* specification of the caller declares
FitsSpecification(hc) ==
    \A i \in 1..Len(get_hookimpls(hc)) :
       Range(get_hookimpls(hc)[i].argnames) \subseteq Range(hc.spec.argnames)

\* the callers of the manager m that have a specification hold only
\* implementations that fit it
AllFit(m) == \A h \in HookNames : has_spec(m.hook[h]) => FitsSpecification(m.hook[h])

\* C23: in every state the manager reaches through register, unregister and
\* add_hookspecs, whether they return or raise, every implementation held by
\* a caller that has a specification takes only positional arguments that
\* the specification declares.
C23_ImplsFitSpecification == AllFit(Manager)

\* the positions of the implementations of the caller that are not marked
\* optionalhook
Required(hc) ==
    {i \in 1..Len(get_hookimpls(hc)) : ~get_hookimpls(hc)[i].optionalhook}

\* the hooks of the manager m whose caller has no specification and holds an
\* implementation that is not marked optionalhook
PendingHooks(m) ==
    {h \in HookNames : /\ m.hook[h].cls # ""
                        /\ ~has_spec(m.hook[h])
                        /\ Required(m.hook[h]) # {}}

\* the last operation ended with check_pending
CheckPendingDone ==
    last.op \in {"check_pending", "add_hookspecs_check_pending",
                 "unregister_check_pending"}

\* every implementation that is pending in m belongs to the plugin
OnlyOffender(m, plugin) ==
    \A h \in PendingHooks(m) : \A i \in Required(m.hook[h]) :
       get_hookimpls(m.hook[h])[i].plugin = plugin

C24_WitnessOptional ==
    /\ last.op = "check_pending"
    /\ last.exc = NoExc
    /\ \E h \in HookNames : /\ ~has_spec(hook[h]) /\ get_hookimpls(hook[h]) # <<>>

\* C24, witnessed: a caller was pending, its specification was added and
\* check_pending returned
C24_WitnessAdded ==
    /\ last.op = "add_hookspecs_check_pending"
    /\ PendingHooks(last.pre) = {last.hook_name}
    /\ last.exc = NoExc

\* C24, witnessed: a caller was pending, the plugin was unregistered and
\* check_pending returned
C24_WitnessUnregistered ==
    /\ last.op = "unregister_check_pending"
    /\ PendingHooks(last.pre) # {}
    /\ OnlyOffender(last.pre, last.plugin)
    /\ last.exc = NoExc

----------------------------------------------------------------------------
(* Claims on the order of the lists (SpecOrder) *)

\* the list has its trylast implementations first and its tryfirst
\* implementations last: no implementation stands before a trylast one
\* without being trylast, none stands after a tryfirst one without being
\* tryfirst
Arranged(impls) ==
    \A i, j \in 1..Len(impls) :
       i < j => /\ impls[j].trylast => impls[i].trylast
                /\ impls[i].tryfirst => impls[j].tryfirst

\* C25: in every state reached by registering and unregistering plugins,
\* each of the two lists of every caller consists of the trylast
\* implementations, then the unmarked ones, then the tryfirst ones.
C25_ListsArranged ==
    \A h \in HookNames : Arranged(hook[h].normal) /\ Arranged(hook[h].wrappers)

\* the position of the plugin in _name2plugin, which keeps the plugins in the
\* order of their registration
RegIndex(plugin) ==
    CHOOSE i \in 1..Len(name2plugin) : name2plugin[i].plugin = plugin

\* the two implementations carry the same marks
SameClass(x, y) == x.tryfirst = y.tryfirst /\ x.trylast = y.trylast

\* the lists of the callers
Lists == {hook[h].normal : h \in HookNames} \cup {hook[h].wrappers : h \in HookNames}

C26_WitnessUnmarked ==
    /\ Len(hook["h"].normal) = 3
    /\ SameClass(hook["h"].normal[1], hook["h"].normal[2])
    /\ ~hook["h"].normal[1].trylast /\ ~hook["h"].normal[1].tryfirst
    /\ hook["h"].normal[3].tryfirst
    /\ RegIndex(hook["h"].normal[3].plugin) = 1

\* C26, witnessed: the wrappers hold two unmarked wrappers
C26_WitnessWrappers ==
    /\ Len(hook["h"].wrappers) >= 2
    /\ SameClass(hook["h"].wrappers[1], hook["h"].wrappers[2])

----------------------------------------------------------------------------
(* Claims on the order of execution of six implementations (SpecChain) *)

\* the registered plugins in the order of their registration
RegOrder == [i \in 1..Len(name2plugin) |-> name2plugin[i].plugin]

\* the functions the last call invoked, in the order of their invocation
CallOrder == [k \in 1..Len(Calls) |-> Calls[k].function]

\* the hook was called after A, B(trylast), C, D(trylast), E(tryfirst) and F
\* had been registered in that order
CalledAfterAtoF == CallDone /\ RegOrder = <<16, 17, 18, 19, 20, 21>>

\* C27 as stated: the call invokes E, F, C, A, D, B.
C27_AsStated == CalledAfterAtoF => CallOrder = <<201, 211, 181, 161, 191, 171>>

\* C27: after A, B(trylast), C, D(trylast), E(tryfirst), F were registered
\* in that order, the call invokes E, F, C, A, B, D: the tryfirst one, the
\* unmarked ones from the last registered to the first, and the trylast ones
\* from the first registered to the last.
C27_PriorityInterleaving ==
    CalledAfterAtoF => CallOrder = <<201, 211, 181, 161, 171, 191>>

\* C27, witnessed: the six were registered in that order and the call
\* invoked all six
C27_Witness ==
    /\ CalledAfterAtoF
    /\ Len(Calls) = 6
    /\ hook["h"].normal = last.pre.hook["h"].normal

----------------------------------------------------------------------------
(* Claims on the place of the methods of call_extra (SpecMulti) *)

\* the positions of the trace at which the function was invoked
InvokedAt(function) ==
    {q \in 1..Len(last.log) :
        last.log[q].ev = "call" /\ last.log[q].function = function}

\* the positions of the trace at which a method of call_extra was invoked
MethodRuns ==
    {p \in 1..Len(last.log) :
        last.log[p].ev = "call" /\ last.log[p].function \in Methods}

\* C28: in call_extra each supplied method runs as an unmarked normal
\* implementation added last: when a method is invoked, every registered
\* wrapper has been set up and none has been torn down, every registered
\* tryfirst implementation has been invoked, no registered unmarked or
\* trylast implementation has been invoked, and of two methods the one
\* supplied later is invoked first.
C28_MethodsRunAsUnmarkedAddedLast ==
    (CallExtraDone /\ ~is_historic(TheCaller)) =>
      LET log == last.log
          normal == TheCaller.normal
          wrappers == TheCaller.wrappers
      IN  \A p \in MethodRuns :
             /\ \A i \in 1..Len(wrappers) :
                   \E q \in 1..(p - 1) :
                      /\ log[q].ev = "setup"
                      /\ log[q].function = wrappers[i].function
                      /\ log[q].outexc = NoExc
             /\ \A q \in 1..Len(log) : log[q].ev = "teardown" => p < q
             /\ \A i \in 1..Len(normal) :
                   IF normal[i].tryfirst
                   THEN \E q \in InvokedAt(normal[i].function) : q < p
                   ELSE \A q \in InvokedAt(normal[i].function) : p < q
             /\ \A j, k \in 1..Len(last.given) :
                   (j < k /\ last.given[j] = log[p].function) =>
                      \E q \in InvokedAt(last.given[k]) : q < p

\* C28, witnessed: a tryfirst, an unmarked and a trylast implementation are
\* registered; the method ran after the tryfirst one and before the other two
C28_Witness ==
    /\ CallExtraDone
    /\ last.given = <<901>>
    /\ [k \in 1..Len(Calls) |-> Calls[k].function] = <<141, 901, 21, 142>>
    /\ Manager = last.pre

\* C28, witnessed: the method ran inside the registered wrapper and before
\* the two registered unmarked implementations
C28_WitnessWrapper ==
    /\ CallExtraDone
    /\ last.given = <<902>>
    /\ [k \in 1..Len(last.log) |-> <<last.log[k].ev, last.log[k].function>>]
          = <<<<"setup", 132>>, <<"call", 902>>, <<"call", 131>>,
              <<"call", 21>>, <<"teardown", 132>>>>

\* C28, witnessed: two methods, the one supplied last ran first, then the
\* other, then the registered unmarked implementation
C28_WitnessTwo ==
    /\ CallExtraDone
    /\ last.given = <<901, 902>>
    /\ [k \in 1..Len(Calls) |-> Calls[k].function] = <<141, 902, 901, 142>>

----------------------------------------------------------------------------
(* Claims on blocking and unblocking in a row (SpecReg) *)

\* the blocked names of a manager
BlockedNames(m) ==
    {m.name2plugin[i].name :
        i \in {j \in 1..Len(m.name2plugin) : m.name2plugin[j].plugin = 0}}

SetBlockedUnblockDone == last.op = "set_blocked_unblock"

\* C29 as stated: set_blocked(n) followed by unblock(n) leaves the set of
\* blocked names equal to what it was before set_blocked(n).
C29_AsStated ==
    SetBlockedUnblockDone => BlockedNames(Manager) = BlockedNames(last.pre)

\* C29: set_blocked(n) followed by unblock(n) leaves n unblocked and every
\* other name blocked or not as it was, and unblock returns True: the set of
\* blocked names is the one before set_blocked(n) without n, which is the
\* same set exactly when n was not blocked before.
C29_BlockUnblock ==
    SetBlockedUnblockDone =>
      /\ BlockedNames(Manager) = BlockedNames(last.pre) \ {last.name}
      /\ last.retname = "True"
      /\ ~is_blocked(last.pre, last.name) =>
            BlockedNames(Manager) = BlockedNames(last.pre)

\* C29, witnessed: "p2" named a registered plugin and "x" was blocked; after
\* set_blocked("p2") and unblock("p2") exactly "x" is blocked
C29_Witness ==
    /\ SetBlockedUnblockDone
    /\ last.name = "p2"
    /\ get_plugin(last.pre, "p2") = 2
    /\ BlockedNames(last.pre) = {"x"}
    /\ BlockedNames(Manager) = {"x"}
    /\ get_plugin(Manager, "p2") = 0

\* C29, witnessed: the name was blocked before and is not blocked afterwards
C29_WitnessBlockedBefore ==
    /\ SetBlockedUnblockDone
    /\ is_blocked(last.pre, last.name)
    /\ ~is_blocked(Manager, last.name)

----------------------------------------------------------------------------
(* Claims on the monitoring of hook calls (SpecTrace) *)

HookCallDone == last.op = "hook_call"

\* a monitor is installed; a hook call leaves _inner_hookexec as it is
Monitored == inner_hookexec # <<>>

\* the positions of the trace at which before, and after, was called
MonitorCalls(which) == {p \in 1..Len(last.log) : last.log[p].ev = which}

\* the outcome that was handed to after
HandedToAfter == last.log[Len(last.log)]

\* both monitors returned and left the outcome alone
MonitorsPassed ==
    \A p \in MonitorCalls("before") \cup MonitorCalls("after") :
       last.log[p].beh = "pass"

C30_WitnessResult ==
    /\ HookCallDone /\ Monitored /\ MonitorsPassed
    /\ Len(Calls) = 2
    /\ last.ret.t = "list" /\ Len(last.ret.items) = 2
    /\ HandedToAfter.inres = last.ret
    /\ last.exc = NoExc

\* C30, witnessed: a call after undo, with neither before nor after
C30_WitnessUndone ==
    /\ HookCallDone /\ ~Monitored
    /\ Len(Calls) = 2
    /\ MonitorCalls("before") \cup MonitorCalls("after") = {}

----------------------------------------------------------------------------
(* Claims on wrappers that yield twice and on exceptions (SpecCall) *)

\* the positions of the trace at which a wrapper was resumed and yielded again
SecondYields ==
    {p \in 1..Len(last.log) :
        last.log[p].ev = "teardown" /\ last.log[p].beh = "yield2"}

\* no wrapper resumed after position p left anything else than what the
\* wrapper at p left
NotReplacedAfter(p) ==
    \A q \in (p + 1)..Len(last.log) :
       last.log[q].ev = "teardown" =>
          /\ last.log[q].outexc = last.log[p].outexc
          /\ last.log[q].outres = last.log[p].outres

\* C31: a wrapper that yields a second time when it is resumed causes a
\* RuntimeError with the message 'has second yield' that names the wrapper,
\* whether the wrapper is new-style or old-style and whether it was sent a
\* result or thrown an exception; when no wrapper resumed after it replaces
\* the error, the hook call raises that error and returns no result.
C31_SecondYield ==
    CallDone =>
      \A p \in SecondYields :
         /\ last.log[p].outexc.type = "RuntimeError"
         /\ last.log[p].outexc.msg = "has second yield"
         /\ last.log[p].outexc.by = last.log[p].function
         /\ NotReplacedAfter(p) =>
               /\ last.exc = last.log[p].outexc
               /\ last.ret = None

\* C31, witnessed: the old-style wrapper 51 yielded again after the normal
\* implementation had returned a value, the tryfirst wrapper 41 around it
\* let the error through, and the call raised it
C31_Witness ==
    /\ CallDone
    /\ Values # <<>>
    /\ \E p \in SecondYields :
          /\ last.log[p].function = 51
          /\ \E q \in (p + 1)..Len(last.log) :
                last.log[q].ev = "teardown" /\ last.log[q].function = 41
          /\ NotReplacedAfter(p)
    /\ last.exc = Exc("RuntimeError", 51, "has second yield")

\* C31, witnessed: a new-style wrapper yielded again and the call raised
C31_WitnessNewStyle ==
    /\ CallDone
    /\ \E p \in SecondYields : last.log[p].function = 61
    /\ last.exc = Exc("RuntimeError", 61, "has second yield")

\* C31, witnessed: the wrapper around the one that yielded again replaced the
\* error by a result, which the call returned
C31_WitnessReplaced ==
    /\ CallDone
    /\ SecondYields # {}
    /\ last.exc = NoExc

----------------------------------------------------------------------------
(* Claims on the plugins of the implementations (SpecAgree) *)

\* every implementation a caller holds is of a registered plugin
ImplsOfRegistered(m) ==
    \A h \in HookNames : \A i \in 1..Len(get_hookimpls(m.hook[h])) :
       get_hookimpls(m.hook[h])[i].plugin \in get_plugins(m)

\* C32: when every unregister is called with a plugin, with a name, or with
\* a plugin and its name, then between the operations of the manager every
\* implementation on the lists of a caller is of a plugin that is registered,
\* and after unregister(p), unregister(name) of the name of p, or
\* set_blocked of the name of p no caller holds an implementation of p.
C32_ImplsOfRegisteredPlugins ==
    /\ ImplsOfRegistered(Manager)
    /\ (last.op = "unregister" /\ last.plugin # 0) => HeldBy(Manager, last.plugin) = {}
    /\ (last.op \in {"unregister", "set_blocked"} /\ last.name # "") =>
          \/ ~has_plugin(last.pre, last.name)
          \/ HeldBy(Manager, get_plugin(last.pre, last.name)) = {}

\* C32, witnessed: unregister of plugin 13, which held a normal
\* implementation and a wrapper of h, while plugin 2 stays registered with
\* its implementation
C32_Witness ==
    /\ last.op = "unregister" /\ last.plugin = 13 /\ last.exc = NoExc
    /\ Cardinality(HeldBy(last.pre, 13)) = 2
    /\ HeldBy(Manager, 13) = {}
    /\ HeldBy(Manager, 2) # {}
    /\ get_plugins(Manager) = {2}

\* C32, witnessed: set_blocked of the name of plugin 13
C32_WitnessBlocked ==
    /\ BlockedRegistered /\ last.name = "p13"
    /\ Cardinality(HeldBy(last.pre, 13)) = 2
    /\ HeldBy(Manager, 13) = {}

\* C32, witnessed: a registration that was rejected half-way left the plugin
\* registered with the implementation added before the rejection
C32_WitnessRejected ==
    /\ RegisterDone /\ last.exc.type = "PluginValidationError"
    /\ HeldBy(Manager, last.plugin) # {}
    /\ last.plugin \in get_plugins(Manager)

\* C32, witnessed: unregister with the plugin and the name it has
C32_WitnessBoth ==
    /\ last.op = "unregister" /\ last.plugin = 2 /\ last.name = "x"
    /\ HeldBy(last.pre, 2) # {}
    /\ HeldBy(Manager, 2) = {}

----------------------------------------------------------------------------
(* Claims on the indent of the tracer (SpecNest) *)

\* tracing is enabled
TracingOn == \E k \in 1..Len(inner_hookexec) : IsTracer(inner_hookexec[k])

\* the hook of which the function is an implementation
HookOf(function) ==
    LET attrs == PluginAttrs(OwnerOf(function))
    IN  attrs[CHOOSE k \in 1..Len(attrs) : attrs[k].function = function].hook

\* how many hook calls are in progress when the function runs in the call rec
DepthOf(rec, function) ==
    IF rec.op = "nested_call" /\ HookOf(function) = rec.name THEN 2 ELSE 1

\* the writer of the tracer returned whenever it was called in the trace
WriterReturned(log) ==
    \A p \in 1..Len(log) :
       (log[p].ev \in {"before", "after"} /\ IsTracer(log[p].function)) =>
           log[p].beh = "pass"

\* with tracing enabled, a hook call was made, alone or with another hook
\* call inside, and the writer returned
TracedCallMade ==
    /\ TracingOn
    /\ last = NoLast
    /\ last'.op \in {"hook_call", "nested_call"}
    /\ WriterReturned(last'.log)

C33_WitnessReturned ==
    /\ TracingOn
    /\ last.op = "nested_call"
    /\ WriterReturned(last.log)
    /\ Len(SelectSeq(last.log, LAMBDA e : e.ev = "call")) >= 2
    /\ last.exc = NoExc
    /\ indent = 1

\* C33, witnessed: the writer raised in before and the indent stays raised
C33_WitnessWriterRaised ==
    /\ TracingOn
    /\ last.op = "hook_call"
    /\ ~WriterReturned(last.log)
    /\ indent = 1

----------------------------------------------------------------------------
(* Claims on the loading of entry points (SpecLoad) *)

\* the names of the entry points of the group (of the name, if one is given)
\* that are neither registered nor blocked in m
Eligible(m, group, name) ==
    {EntryPoints[k].name : k \in
        {j \in 1..Len(EntryPoints) :
            /\ EntryPoints[j].group = group
            /\ name = "" \/ EntryPoints[j].name = name
            /\ ~DictHas(m.name2plugin, EntryPoints[j].name)}}

\* what the first entry point of the group with the name n loads
FirstEntry(group, n) ==
    EntryPoints[CHOOSE k \in 1..Len(EntryPoints) :
        /\ EntryPoints[k].group = group /\ EntryPoints[k].name = n
        /\ \A j \in 1..(k - 1) :
              ~(EntryPoints[j].group = group /\ EntryPoints[j].name = n)].plugin

EntryNames == {EntryPoints[k].name : k \in 1..Len(EntryPoints)}
KnownNames(m) == {m.name2plugin[i].name : i \in 1..Len(m.name2plugin)}

\* from the manager pre, exactly the eligible entry points were registered
LoadedExactly(pre, m, group, name) ==
    /\ \A n \in Eligible(pre, group, name) :
          /\ get_plugin(m, n) = FirstEntry(group, n)
          /\ HeldBy(m, FirstEntry(group, n)) # {}
    /\ \A n \in (EntryNames \cup KnownNames(pre) \cup KnownNames(m))
                   \ Eligible(pre, group, name) :
          /\ DictHas(m.name2plugin, n) = DictHas(pre.name2plugin, n)
          /\ DictGet(m.name2plugin, n) = DictGet(pre.name2plugin, n)
    /\ get_plugins(m) = get_plugins(pre)
          \cup {FirstEntry(group, n) : n \in Eligible(pre, group, name)}

LoadReturned == last.op = "load_setuptools_entrypoints" /\ last.exc = NoExc
LoadedTwice == last.op = "load_twice"

C34_WitnessNone ==
    /\ LoadReturned /\ last.hook_name = "pytest11" /\ last.name = ""
    /\ is_blocked(last.pre, "x") /\ has_plugin(last.pre, "y")
    /\ last.ret = Obj(0)
    /\ Manager = last.pre

\* C34, witnessed: restricted to the name y, x is left alone
C34_WitnessName ==
    /\ LoadReturned /\ last.hook_name = "pytest11" /\ last.name = "y"
    /\ last.ret = Obj(1)
    /\ ~DictHas(Manager.name2plugin, "x")
    /\ get_plugin(Manager, "y") = 17

\* C34, witnessed: the call made again after a call that registered two
\* plugins returned 0
C34_WitnessRepeated ==
    /\ LoadedTwice /\ last.given = <<2>> /\ last.ret = Obj(0)
    /\ Cardinality(get_plugins(Manager)) = Cardinality(get_plugins(last.pre)) + 2

\* C34, witnessed: the object an entry point loads is registered under
\* another name already, and the call raised
C34_WitnessRaised ==
    /\ last.op = "load_setuptools_entrypoints" /\ last.hook_name = "other"
    /\ last.exc.type = "ValueError"
    /\ get_plugin(Manager, "z") = 19

----------------------------------------------------------------------------
(* Claims on the exceptions of normal implementations (SpecRaise) *)

\* the exception a normal implementation raised in the last call, NoExc if
\* none raised
RaisedByNormal ==
    IF \E p \in 1..Len(Calls) : Calls[p].outexc # NoExc
    THEN Calls[CHOOSE p \in 1..Len(Calls) : Calls[p].outexc # NoExc].outexc
    ELSE NoExc

\* no wrapper of the last call caught or replaced what it was resumed with
NoWrapperCatches == \A p \in 1..Len(Teardowns) : Teardowns[p].beh = "pass"

\* C35: when a normal implementation raises and every wrapper lets through
\* what it is resumed with, every wrapper of the hook is torn down with that
\* exception and the call raises that very exception, also when it is a
\* RuntimeError or a StopIteration.
C35_ExceptionPassesThrough ==
    (CallDone /\ RaisedByNormal # NoExc /\ NoWrapperCatches) =>
       /\ last.exc = RaisedByNormal
       /\ Len(Teardowns) = Len(TheCaller.wrappers)
       /\ \A p \in 1..Len(Teardowns) :
             /\ Teardowns[p].inexc = RaisedByNormal
             /\ Teardowns[p].outexc = RaisedByNormal

\* C35, witnessed: StopIteration raised by the function 21 passed through
\* the old-style wrapper 51 and the new-style wrapper 41
C35_Witness ==
    /\ CallDone /\ NoWrapperCatches
    /\ RaisedByNormal = StopIterationOf([function |-> 21])
    /\ {Teardowns[p].function : p \in 1..Len(Teardowns)} = {41, 51}
    /\ last.exc.type = "StopIteration"

\* C35, witnessed: RuntimeError passed through a new-style wrapper
C35_WitnessRuntimeError ==
    /\ CallDone /\ NoWrapperCatches
    /\ RaisedByNormal = RuntimeErrorOf([function |-> 21])
    /\ \E p \in 1..Len(Teardowns) : Teardowns[p].function = 61
    /\ last.exc = RuntimeErrorOf([function |-> 21])

\* C35, witnessed: an exception of another class, and an implementation that
\* ran before the one that raised
C35_WitnessAfterOthers ==
    /\ CallDone /\ NoWrapperCatches
    /\ RaisedByNormal.type = "UserError"
    /\ Len(Calls) = 2 /\ Len(Teardowns) = 1
    /\ last.exc = RaisedByNormal

\* C35, witnessed: a wrapper that catches: the host sees no exception
C35_WitnessCaught ==
    /\ CallDone /\ ~NoWrapperCatches
    /\ RaisedByNormal # NoExc
    /\ last.exc = NoExc

----------------------------------------------------------------------------
(* Claims on a caller made by subset_hook_caller and kept (SpecSubset) *)

SubsetHeldCalled == last.op = "subset_held_call" /\ last.exc = NoExc

\* the functions the last call ran
Invoked == {last.log[p].function :
               p \in {q \in 1..Len(last.log) : last.log[q].ev \in {"call", "setup"}}}

\* the functions of the implementations that the plugins registered on the
\* hook now have on it, those of the removed plugins left out
OfRegisteredNotRemoved ==
    {get_hookimpls(hook[subset.name])[i].function :
        i \in {j \in 1..Len(get_hookimpls(hook[subset.name])) :
                  get_hookimpls(hook[subset.name])[j].plugin \notin subset.remove}}

\* C36: a call through a caller that subset_hook_caller returned earlier runs
\* the implementations of the plugins that are registered on the hook when
\* the call is made and are not in the removed set: those registered after
\* the caller was made are run, those unregistered since are not.
C36_SubsetFollowsRegistrations ==
    SubsetHeldCalled => Invoked = OfRegisteredNotRemoved

\* the same, for a caller whose _orig is still the attribute of the relay
C36_WhileOrigIsOnTheRelay ==
    (SubsetHeldCalled /\ subset.live) => Invoked = OfRegisteredNotRemoved

\* a plugin registered after the caller was made was run, and one that
\* was unregistered was not
C36_ReachedLive ==
    /\ SubsetHeldCalled /\ subset.live
    /\ subset.remove = {7}
    /\ Invoked = {81}
    /\ get_plugins(Manager) = {7, 8}

\* the relay has a new caller for the hook, and the kept caller ran an
\* implementation of a plugin that is no longer registered
C36_ReachedStale ==
    /\ SubsetHeldCalled /\ ~subset.live
    /\ 8 \notin get_plugins(Manager)
    /\ 81 \in Invoked

\* sub.call_historic was called on a caller made for a historic caller
SubsetHistoricCalled ==
    /\ last.op = "subset_call_historic"
    /\ is_historic(TheOrig)

\* the events of the function in the trace of a registration
ReplaysOf(log, function) ==
    SelectSeq(log, LAMBDA e : e.ev = "call" /\ e.function = function)

\* what registering the plugin now would lead to, when its implementations
\* return None on every replay
LateRegistration(m, plugin) ==
    register(m, plugin, "", [k \in 1..MaxHistory |-> "none"])

\* the manager that call_historic on the caller itself leaves
AfterCallHistoric ==
    call_historic(last.pre, last.hook_name, last.callback, last.kwargs,
                  [i \in 1..Len(last.pre.hook[last.hook_name].normal) |-> "none"]).m

\* C37: call_historic through a caller made by subset_hook_caller appends
\* the call to the history of the hook's own caller and leaves the manager as
\* call_historic on that caller leaves it, so that every plugin registered
\* afterwards, a removed one too, has each of its implementations of the hook
\* called once for every recorded call, the last time with the arguments of
\* this call.
C37_SubsetHistoricIsRecorded ==
    SubsetHistoricCalled =>
       /\ hook[last.hook_name].history =
             Append(last.pre.hook[last.hook_name].history,
                    [kwargs |-> last.kwargs, callback |-> last.callback])
       /\ Manager = AfterCallHistoric
       /\ \A p \in universe.plugins \ get_plugins(Manager) :
             \A k \in 1..Len(PluginAttrs(p)) :
                PluginAttrs(p)[k].hook = last.hook_name =>
                   LET replays == ReplaysOf(LateRegistration(Manager, p).log,
                                            PluginAttrs(p)[k].function)
                   IN  /\ Len(replays) = Len(hook[last.hook_name].history)
                       /\ replays[Len(replays)].args =
                             CallArgs(PluginAttrs(p)[k].argnames, last.kwargs)

\* C37, witnessed: the second call of the history was made through a caller
\* without the plugin 7, which is not registered and implements the hook
\* with an argument; the registered plugin 8 was called
C37_Witness ==
    /\ SubsetHistoricCalled
    /\ subset.remove = {7}
    /\ 7 \notin get_plugins(Manager)
    /\ Len(hook["hist"].history) = 2
    /\ hook["hist"].history[1].kwargs # last.kwargs
    /\ \E p \in 1..Len(last.log) : last.log[p].function = 81

\* C37, witnessed: the removed plugin is registered and is left out of the
\* call, which is recorded
C37_WitnessRemovedRegistered ==
    /\ SubsetHistoricCalled
    /\ subset.remove = {7}
    /\ get_plugins(Manager) = {7, 9}
    /\ Invoked = {91, 92}
    /\ Len(hook["hist"].history) = 1

\* C37, witnessed: a plugin registered after a recorded call was called
\* with it while a caller without that plugin is kept
C37_WitnessReplayed ==
    /\ last.op = "register" /\ last.plugin = 7 /\ last.exc = NoExc
    /\ subset.remove = {7} /\ subset.live
    /\ Len(ReplaysOf(last.log, 71)) = 2

----------------------------------------------------------------------------
(* Claims on registrations made during a historic call (SpecLate) *)

\* an implementation of the last call_historic registered the plugin, which
\* was not registered before
RegisteredDuringHistoric ==
    /\ last.op = "call_historic_reentrant"
    /\ last.name = "register"
    /\ last.exc = NoExc
    /\ last.plugin \notin get_plugins(last.pre)
    /\ last.plugin \in get_plugins(Manager)

\* the entries of the functions of the plugin's implementations of the hook
\* in the trace
RunsOf(log, function) == SelectSeq(log, LAMBDA e : e.ev = "call" /\ e.function = function)

\* C38: when an implementation registers a plugin during a call_historic,
\* every implementation the plugin has of that hook is called once for each
\* recorded call, in the order of the history, the last of them being the
\* call in progress: exactly once for that call.
C38_RegisteredDuringDispatchCalledOnce ==
    RegisteredDuringHistoric =>
       \A k \in 1..Len(PluginAttrs(last.plugin)) :
          PluginAttrs(last.plugin)[k].hook = last.hook_name =>
             LET runs == RunsOf(last.log, PluginAttrs(last.plugin)[k].function)
                 history == hook[last.hook_name].history
             IN  /\ Len(runs) = Len(history)
                 /\ Len(history) = Len(last.pre.hook[last.hook_name].history) + 1
                 /\ history[Len(history)].kwargs = last.kwargs
                 /\ \A j \in 1..Len(runs) :
                       runs[j].args =
                          CallArgs(PluginAttrs(last.plugin)[k].argnames,
                                   history[j].kwargs)

\* C38, witnessed: the function 81 registered the plugin 7 during the second
\* recorded call, whose argument differs from that of the first; 71 ran
\* twice, the second time with the argument of the call in progress
C38_Witness ==
    /\ RegisteredDuringHistoric
    /\ last.given = <<81>> /\ last.plugin = 7
    /\ Len(last.pre.hook["hist"].history) = 1
    /\ last.pre.hook["hist"].history[1].kwargs.a # last.kwargs.a
    /\ Len(RunsOf(last.log, 71)) = 2
    /\ RunsOf(last.log, 71)[2].args = <<last.kwargs.a>>

\* C38, witnessed: the first recorded call; the plugin has two
\* implementations of the hook, each of which ran once
C38_WitnessFirstCall ==
    /\ RegisteredDuringHistoric
    /\ last.plugin = 9
    /\ last.pre.hook["hist"].history = <<>>
    /\ Len(RunsOf(last.log, 91)) = 1 /\ Len(RunsOf(last.log, 92)) = 1

\* C38, witnessed: the implementations registered before the call ran after
\* the registration, once each
C38_WitnessOthersRun ==
    /\ RegisteredDuringHistoric
    /\ last.given = <<91>> /\ last.plugin = 8
    /\ get_plugins(last.pre) = {9}
    /\ Len(RunsOf(last.log, 91)) = 1 /\ Len(RunsOf(last.log, 92)) = 1
    /\ Len(RunsOf(last.log, 81)) = 1

----------------------------------------------------------------------------
(* Claims on the undo functions of several monitors (SpecUndo) *)

\* the monitors whose before, and whose after, the last call invoked
InvokedBefore == {last.log[p].function : p \in MonitorCalls("before")}
InvokedAfter == {last.log[p].function : p \in MonitorCalls("after")}

\* the monitors that were installed and whose undo function was not called
NotUndone == {monitor \in Monitors : undos[monitor].held /\ ~undos[monitor].called}
Undone == {monitor \in Monitors : undos[monitor].called}

\* C39: a hook call invokes before and after of exactly the monitors that
\* were installed and not undone: never those of a monitor whose undo
\* function has been called, always those of the others, in whatever order
\* the undo functions were called.
C39_UndoneMonitorsStayOut ==
    HookCallDone =>
       /\ InvokedBefore = NotUndone
       /\ InvokedAfter = NotUndone

\* the monitor 1 was installed before the monitor 2 and undone first: the
\* call did not invoke the monitor 2, which was not undone
C39_ReachedDropped ==
    /\ HookCallDone
    /\ undos[1].called /\ undos[2].held /\ ~undos[2].called
    /\ undos[2].oldcall = <<1>>
    /\ InvokedBefore = {}

\* then the monitor 2 was undone too: the call invoked the monitor 1, whose
\* undo function had been called
C39_ReachedRevived ==
    /\ HookCallDone
    /\ Undone = {1, 2}
    /\ undos[2].oldcall = <<1>>
    /\ InvokedBefore = {1} /\ InvokedAfter = {1}

----------------------------------------------------------------------------
(* Claims on the handover to a historic caller (SpecHandover) *)

\* add_hookspecs returned after it handed the implementations of a caller
\* over to a new historic caller
HandedOver ==
    /\ last.op = "add_hookspecs" /\ last.exc = NoExc
    /\ last.pre.hook[last.hook_name].cls = "NormalHookCaller"
    /\ get_hookimpls(last.pre.hook[last.hook_name]) # <<>>
    /\ is_historic(hook[last.hook_name])

\* C40: after a historic specification was added to a hook that had
\* implementations, the caller holds those implementations in the order in
\* which the former caller held them.
C40_HandoverKeepsOrder ==
    HandedOver =>
       get_hookimpls(hook[last.hook_name])
          = get_hookimpls(last.pre.hook[last.hook_name])

\* the same for hooks with at most one implementation marked trylast
C40_WithOneTrylast ==
    (/\ HandedOver
     /\ Cardinality({i \in 1..Len(last.pre.hook[last.hook_name].normal) :
                        last.pre.hook[last.hook_name].normal[i].trylast}) <= 1)
       => get_hookimpls(hook[last.hook_name])
             = get_hookimpls(last.pre.hook[last.hook_name])

\* the implementations B and D, both marked trylast, have changed places
C40_ReachedReversed ==
    /\ HandedOver
    /\ Len(hook["h"].normal) = 3
    /\ [i \in 1..3 |-> last.pre.hook["h"].normal[i].function] = <<191, 171, 161>>
    /\ [i \in 1..3 |-> hook["h"].normal[i].function] = <<171, 191, 161>>

\* the order of unmarked and tryfirst implementations was kept
C40_ReachedKept ==
    /\ HandedOver
    /\ Len(hook["h"].normal) = 3
    /\ [i \in 1..3 |-> hook["h"].normal[i].function] = <<161, 181, 201>>
    /\ hook["h"].normal = last.pre.hook["h"].normal

\* a call through the new caller ran D before B
C40_ReachedCalled ==
    /\ last.op = "call_historic" /\ last.exc = NoExc
    /\ [p \in 1..Len(Calls) |-> Calls[p].function] = <<161, 191, 171>>
    /\ name2plugin = <<[name |-> "p16", plugin |-> 16],
                       [name |-> "p17", plugin |-> 17],
                       [name |-> "p19", plugin |-> 19]>>

====
